---- MODULE Spec2Model ----
(***************************************************************************)
(* A model of langfuse-go's two stateful engines:                          *)
(*   - MediaUploader (media.go): dedup cache, bounded channel, worker      *)
(*     pool, status table, Shutdown;                                       *)
(*   - langgraph.Hook (langgraph/hook.go): the event-to-record state       *)
(*     machine with its traces / observations / parents tables.            *)
(* Each engine has its own specification (SpecMedia, SpecHook); the other  *)
(* engine's variables stay at their initial values.                        *)
(***************************************************************************)
EXTENDS Integers, Sequences, FiniteSets, TLC

VARIABLES
    \* ---- MediaUploader ----
    queue,             \* mu.queue: the buffered channel's contents
    closed,            \* mu.queue has been closed
    uploads,           \* mu.uploads: media ID -> MediaUploadStatus
    dedupCache,        \* mu.dedupCache: hash -> reference id
    wpc,               \* each worker goroutine's position
    wtask,             \* the task a worker holds
    wref,              \* the worker's local referenceID
    wg,                \* mu.wg counter
    cpc,               \* each application goroutine's position
    ccall,             \* the call an application goroutine is in
    nCalls,            \* number of calls each application goroutine has begun
    returns,           \* the calls that have returned, with their results
    commits,           \* the uploads the workers have performed
    callbacks,         \* the callback invocations made so far
    nextUuid,          \* uuid.New(): next fresh value
    held,              \* the *MediaUploadStatus values GetStatus has handed out
    \* ---- langgraph.Hook ----
    enabled,           \* h.enabled
    autoFlush,         \* h.config.AutoFlush
    traces,            \* h.traces: graph span ID -> trace
    observations,      \* h.observations: span ID -> observation ID
    parents,           \* h.parents: observation ID -> parent observation ID
    initialInput,      \* h.initialInput
    hookUuid,          \* uuid.New() as the Hook draws it
    sinkCalls,         \* the Trace / Span / Generation calls the Sink has received
    emitted,           \* the Sink calls of the event handled last, in order
    started,           \* the external ids some Start event has carried so far
    run,               \* how far the events so far spell one run g, n, n, g
    identity,          \* a Trace's userID / sessionID resolution: its inputs and result
    classified,        \* a node name and what isAIOperation answered for it
    filtered,          \* a FilteredHook: its filter and what its wrapped hook received
    multi,             \* a MultiHook: m.hooks, the loop of OnEvent, what the hooks received
    mu,                \* h.mu: per goroutine, the call it holds the Hook's lock for
    nEvents            \* events and calls delivered to the Hook, plus the
                       \* calls the Sink has rejected

mvars == <<queue, closed, uploads, dedupCache, wpc, wtask, wref, wg, cpc, ccall, nCalls, returns, commits,
           callbacks, nextUuid, held>>

hvars == <<enabled, autoFlush, traces, observations, parents, initialInput,
           hookUuid, sinkCalls, emitted, started, run, nEvents, identity,
           classified, filtered, multi, mu>>

vars == <<mvars, hvars>>

(* ------------------------------ bounds --------------------------------- *)
\* capacity of mu.queue (make(chan *MediaUploadTask, 100) in the source)
QueueCap == 1
\* number of API calls the application goroutines make in one run
MaxCalls == 2
\* events and calls delivered to a Hook in one run, plus the calls the Sink
\* rejects in it
MaxEvents == 4

(* ---------------------------- small helpers ---------------------------- *)
Put(f, k, v) == (k :> v) @@ f

Range(s) == {s[i] : i \in DOMAIN s}

\* the empty string, for id-valued results
NoId == <<>>

\* uuid.New().String()
Uuid(k) == <<"uuid", k>>

\* fmt.Sprintf("media_%s", uuid.New().String())
ReferenceIDOf(k) == <<"media_", k>>

IsReferenceID(x) == Len(x) = 2 /\ x[1] = "media_"

(* ------------------------------ media ---------------------------------- *)
\* sha256.Sum256(data), hex-formatted: injective on the data used here
Sha256(data) == <<"sha256", data>>

NewMediaFromBytes(data, contentType, fileName, k) ==
    [ID          |-> Uuid(k),
     Data        |-> data,
     ContentType |-> IF contentType = "" THEN "application/octet-stream"
                     ELSE contentType,
     FileName    |-> fileName,
     Size        |-> Len(data),
     Hash        |-> Sha256(data)]

\* The media objects the application has constructed: the first two hold the
\* same bytes under different ids, content types and file names.
MediaPool ==
    { NewMediaFromBytes(<<1, 2>>, "image/png", "a.png", 1),
      NewMediaFromBytes(<<1, 2>>, "", "b.bin", 2),
      NewMediaFromBytes(<<3>>, "image/png", "a.png", 3) }

MediaIDs == {m.ID : m \in MediaPool}
Hashes == {m.Hash : m \in MediaPool}
MediaByID(id) == CHOOSE m \in MediaPool : m.ID = id
FirstFreeUuid == Cardinality(MediaPool) + 1

\* workers <= 0 ==> workers = 2
DefaultWorkers == 2
NewMediaUploaderWorkers(workers) == IF workers <= 0 THEN DefaultWorkers ELSE workers
Workers == 1..NewMediaUploaderWorkers(0)

Callers == {"c1", "c2"}

NoTask == [key |-> <<>>]
NoCall == [op |-> "none"]

\* &MediaUploadStatus{ID, Status: "queued", StartedAt}: StartedAt is the
\* registering call, which tells this object from any other
NewStatus(id, startedAt) ==
    [ID |-> id, Status |-> "queued", ReferenceID |-> NoId, StartedAt |-> startedAt]

\* the nil *MediaUploadStatus
NilStatus == [ID |-> NoId, Status |-> "nil", ReferenceID |-> NoId, StartedAt |-> NoId]

\* a dedup cache keyed by the media object instead of its content
CacheKeyByID(media) == media.ID

\* the key Upload looks up in the dedup cache
CacheKey(media) == media.Hash

\* mu.uploads[id] if present
HasStatus(id) == id \in DOMAIN uploads

InitMedia ==
    /\ queue = <<>>
    /\ closed = FALSE
    /\ uploads = <<>>
    /\ dedupCache = <<>>
    /\ wpc = [w \in Workers |-> "loop"]
    /\ wtask = [w \in Workers |-> NoTask]
    /\ wref = [w \in Workers |-> NoId]
    /\ wg = Cardinality(Workers)
    /\ cpc = [c \in Callers |-> "idle"]
    /\ ccall = [c \in Callers |-> NoCall]
    /\ nCalls = [c \in Callers |-> 0]
    /\ returns = {}
    /\ commits = {}
    /\ callbacks = <<>>
    /\ nextUuid = FirstFreeUuid
    /\ held = {}

TotalCalls == nCalls["c1"] + nCalls["c2"]

\* an application goroutine enters a call: it is identified by the goroutine
\* and the number of the call among that goroutine's calls
CanCall(c) == cpc[c] = "idle" /\ TotalCalls < MaxCalls
NewCall(c, op, id) == [op |-> op, key |-> <<c, nCalls[c] + 1>>, media |-> id]
Result(call, id, err) ==
    [key |-> call.key, op |-> call.op, media |-> call.media, id |-> id, err |-> err]

Return(c, id, err) ==
    /\ returns' = returns \cup {Result(ccall[c], id, err)}
    /\ cpc' = [cpc EXCEPT ![c] = "idle"]
    /\ ccall' = [ccall EXCEPT ![c] = NoCall]

Panic(c) ==
    /\ cpc' = [cpc EXCEPT ![c] = "panicked"]
    /\ UNCHANGED <<ccall, returns>>

\* A send on mu.queue proceeds while the buffer has room.  A receiver blocked
\* on the empty channel is a worker at "loop": the value handed to it passes
\* through the buffer and is taken by its WorkerReceive step.
CanSend == Len(queue) < QueueCap
Send(task) == queue' = Append(queue, task)

NewTask(call, callback) ==
    [key |-> call.key, Media |-> call.media, Callback |-> callback]

(* Upload, lines 470-477: the dedup-cache check under RLock *)
UploadCheck(c, m) ==
    /\ CanCall(c)
    /\ nCalls' = [nCalls EXCEPT ![c] = @ + 1]
    /\ IF CacheKey(m) \in DOMAIN dedupCache
       THEN /\ returns' = returns \cup
                  {Result(NewCall(c, "Upload", m.ID), dedupCache[CacheKey(m)], "")}
            /\ UNCHANGED <<cpc, ccall>>
       ELSE /\ cpc' = [cpc EXCEPT ![c] = "register"]
            /\ ccall' = [ccall EXCEPT ![c] = NewCall(c, "Upload", m.ID)]
            /\ UNCHANGED returns
    /\ UNCHANGED <<queue, closed, uploads, dedupCache, wpc, wtask,
                   wref, wg, commits, callbacks, nextUuid>>
    /\ UNCHANGED held
    /\ UNCHANGED hvars

(* Upload, lines 479-488: a new status replaces mu.uploads[media.ID] *)
UploadRegister(c) ==
    /\ cpc[c] = "register"
    /\ uploads' = Put(uploads, ccall[c].media,
                     NewStatus(ccall[c].media, ccall[c].key))
    /\ cpc' = [cpc EXCEPT ![c] = "select"]
    /\ UNCHANGED <<queue, closed, dedupCache, wpc, wtask,
                   wref, wg, ccall, nCalls, returns, commits, callbacks,
                   nextUuid>>
    /\ UNCHANGED held
    /\ UNCHANGED hvars

\* an Upload that reports success although the full queue took nothing
UploadSelectDropsSilently(c) ==
    /\ cpc[c] = "select"
    /\ IF closed
       THEN /\ Panic(c)
            /\ UNCHANGED queue
       ELSE IF CanSend
       THEN /\ Send(NewTask(ccall[c], FALSE))
            /\ Return(c, ccall[c].media, "")
       ELSE /\ Return(c, ccall[c].media, "")
            /\ UNCHANGED queue
    /\ UNCHANGED <<closed, wpc, wtask, uploads, dedupCache,
                   wref, wg, nCalls, commits, callbacks, nextUuid>>
    /\ UNCHANGED held
    /\ UNCHANGED hvars

(* Upload, lines 490-502: the non-blocking send *)
UploadSelect(c) ==
    /\ cpc[c] = "select"
    /\ IF closed
       THEN \* send on closed channel
            /\ Panic(c)
            /\ UNCHANGED queue
       ELSE IF CanSend
       THEN /\ Send(NewTask(ccall[c], FALSE))
            /\ Return(c, ccall[c].media, "")
       ELSE /\ Return(c, NoId, "upload queue is full")
            /\ UNCHANGED queue
    /\ UNCHANGED <<closed, wpc, wtask, uploads, dedupCache, wref, wg, nCalls, commits, callbacks, nextUuid>>
    /\ UNCHANGED held
    /\ UNCHANGED hvars

(* UploadWithCallback, lines 506-512: the task is built *)
UploadWithCallbackBegin(c, m) ==
    /\ CanCall(c)
    /\ nCalls' = [nCalls EXCEPT ![c] = @ + 1]
    /\ cpc' = [cpc EXCEPT ![c] = "send"]
    /\ ccall' = [ccall EXCEPT ![c] = NewCall(c, "UploadWithCallback", m.ID)]
    /\ UNCHANGED <<queue, closed, uploads, dedupCache,
                   wpc, wtask, wref, wg, returns, commits,
                   callbacks, nextUuid>>
    /\ UNCHANGED held
    /\ UNCHANGED hvars

\* a send that gives up when the buffer is full: the caller returns and the
\* task is lost
UploadWithCallbackSendGivesUp(c) ==
    /\ cpc[c] = "send"
    /\ IF closed
       THEN /\ Panic(c)
            /\ UNCHANGED queue
       ELSE /\ IF CanSend THEN Send(NewTask(ccall[c], TRUE)) ELSE UNCHANGED queue
            /\ Return(c, NoId, "")
    /\ UNCHANGED <<closed, wpc, wtask, uploads, dedupCache, wref, wg, nCalls, commits, callbacks, nextUuid>>
    /\ UNCHANGED held
    /\ UNCHANGED hvars

(* UploadWithCallback, line 514: the blocking send *)
UploadWithCallbackSend(c) ==
    /\ cpc[c] = "send"
    /\ IF closed
       THEN /\ Panic(c)
            /\ UNCHANGED queue
       ELSE /\ CanSend
            /\ Send(NewTask(ccall[c], TRUE))
            /\ Return(c, NoId, "")
    /\ UNCHANGED <<closed, wpc, wtask, uploads, dedupCache, wref, wg, nCalls, commits, callbacks, nextUuid>>
    /\ UNCHANGED held
    /\ UNCHANGED hvars

\* a worker that leaves its loop as soon as the channel is closed, abandoning
\* what is still buffered
WorkerReceiveAbandons(w) ==
    /\ wpc[w] = "loop"
    /\ IF closed
       THEN /\ wpc' = [wpc EXCEPT ![w] = "exited"]
            /\ wg' = wg - 1
            /\ UNCHANGED <<queue, wtask>>
       ELSE /\ queue # <<>>
            /\ wtask' = [wtask EXCEPT ![w] = Head(queue)]
            /\ queue' = Tail(queue)
            /\ wpc' = [wpc EXCEPT ![w] = "mark"]
            /\ UNCHANGED wg
    /\ UNCHANGED <<closed, uploads, dedupCache,
                   wref, cpc, ccall, nCalls, returns, commits, callbacks,
                   nextUuid>>
    /\ UNCHANGED held
    /\ UNCHANGED hvars

(* worker, line 521: for task := range mu.queue *)
WorkerReceive(w) ==
    /\ wpc[w] = "loop"
    /\ IF queue # <<>>
       THEN /\ wtask' = [wtask EXCEPT ![w] = Head(queue)]
            /\ queue' = Tail(queue)
            /\ wpc' = [wpc EXCEPT ![w] = "mark"]
            /\ UNCHANGED wg
       ELSE \* blocked until a task arrives or the channel is closed; then
            \* the range loop ends; defer mu.wg.Done()
            /\ closed
            /\ wpc' = [wpc EXCEPT ![w] = "exited"]
            /\ wg' = wg - 1
            /\ UNCHANGED <<queue, wtask>>
    /\ UNCHANGED <<closed, uploads, dedupCache, wref, cpc, ccall, nCalls, returns, commits, callbacks,
                   nextUuid>>
    /\ UNCHANGED held
    /\ UNCHANGED hvars

(* processUpload, lines 528-533 *)
WorkerMark(w) ==
    /\ wpc[w] = "mark"
    /\ uploads' =
          IF HasStatus(wtask[w].Media)
          THEN [uploads EXCEPT ![wtask[w].Media].Status = "uploading"]
          ELSE uploads
    /\ wpc' = [wpc EXCEPT ![w] = "upload"]
    /\ UNCHANGED <<queue, closed, dedupCache, wtask,
                   wref, wg, cpc, ccall, nCalls, returns, commits, callbacks,
                   nextUuid>>
    /\ UNCHANGED held
    /\ UNCHANGED hvars

\* the dedup-cache write of processUpload, line 544
CacheCommit(cache, hash, referenceID) == Put(cache, hash, referenceID)

\* a commit that writes the cache and leaves the status entry as it is
WorkerCommitLeavesStatus(w) ==
    /\ wpc[w] = "upload"
    /\ LET referenceID == ReferenceIDOf(nextUuid)
           id == wtask[w].Media
           hash == MediaByID(id).Hash
       IN /\ nextUuid' = nextUuid + 1
          /\ wref' = [wref EXCEPT ![w] = referenceID]
          /\ dedupCache' = CacheCommit(dedupCache, hash, referenceID)
          /\ UNCHANGED uploads
          /\ commits' = commits \cup
                {[key |-> wtask[w].key, media |-> id, hash |-> hash,
                  ref |-> referenceID]}
    /\ wpc' = [wpc EXCEPT ![w] = "finish"]
    /\ UNCHANGED <<queue, closed, wtask, wg, cpc,
                   ccall, nCalls, returns, callbacks>>
    /\ UNCHANGED held
    /\ UNCHANGED hvars

(* processUpload, lines 535-551 *)
WorkerCommit(w) ==
    /\ wpc[w] = "upload"
    /\ LET referenceID == ReferenceIDOf(nextUuid)
           id == wtask[w].Media
           hash == MediaByID(id).Hash
       IN /\ nextUuid' = nextUuid + 1
          /\ wref' = [wref EXCEPT ![w] = referenceID]
          /\ dedupCache' = CacheCommit(dedupCache, hash, referenceID)
          /\ uploads' =
                IF HasStatus(id)
                THEN [uploads EXCEPT ![id] =
                         [@ EXCEPT !.Status = "completed",
                                   !.ReferenceID = referenceID]]
                ELSE uploads
          /\ commits' = commits \cup
                {[key |-> wtask[w].key, media |-> id, hash |-> hash,
                  ref |-> referenceID]}
    /\ wpc' = [wpc EXCEPT ![w] = "finish"]
    /\ UNCHANGED <<queue, closed, wtask, wg, cpc,
                   ccall, nCalls, returns, callbacks>>
    /\ UNCHANGED held
    /\ UNCHANGED hvars

(* processUpload, lines 553-561 *)
WorkerFinish(w) ==
    /\ wpc[w] = "finish"
    /\ callbacks' =
          IF wtask[w].Callback
          THEN Append(callbacks, [key |-> wtask[w].key, ref |-> wref[w], err |-> ""])
          ELSE callbacks
    /\ wpc' = [wpc EXCEPT ![w] = "loop"]
    /\ wtask' = [wtask EXCEPT ![w] = NoTask]
    /\ wref' = [wref EXCEPT ![w] = NoId]
    /\ UNCHANGED <<queue, closed, uploads, dedupCache, wg, cpc,
                   ccall, nCalls, returns, commits, nextUuid>>
    /\ UNCHANGED held
    /\ UNCHANGED hvars

(* Shutdown, line 599: close(mu.queue) *)
ShutdownClose(c) ==
    /\ CanCall(c)
    /\ nCalls' = [nCalls EXCEPT ![c] = @ + 1]
    /\ ccall' = [ccall EXCEPT ![c] = NewCall(c, "Shutdown", NoId)]
    /\ IF closed
       THEN \* close of closed channel
            /\ cpc' = [cpc EXCEPT ![c] = "panicked"]
            /\ UNCHANGED closed
       ELSE /\ closed' = TRUE
            /\ cpc' = [cpc EXCEPT ![c] = "wait"]
    /\ UNCHANGED <<queue, wpc, uploads, dedupCache, wtask, wref, wg, returns, commits, callbacks, nextUuid>>
    /\ UNCHANGED held
    /\ UNCHANGED hvars

(* Shutdown, line 600: mu.wg.Wait() *)
ShutdownWait(c) ==
    /\ cpc[c] = "wait"
    /\ wg = 0
    /\ Return(c, NoId, "")
    /\ UNCHANGED <<queue, closed, uploads, dedupCache,
                   wpc, wtask, wref, wg, nCalls, commits,
                   callbacks, nextUuid>>
    /\ UNCHANGED held
    /\ UNCHANGED hvars

\* a WaitForUpload that treats a missing entry as one still pending and
\* goes on to the polling wait
WaitForUploadPollsMissing(c, m) ==
    /\ CanCall(c)
    /\ nCalls' = [nCalls EXCEPT ![c] = @ + 1]
    /\ cpc' = [cpc EXCEPT ![c] = "poll"]
    /\ ccall' = [ccall EXCEPT ![c] = NewCall(c, "WaitForUpload", m.ID)]
    /\ UNCHANGED <<queue, closed, uploads, dedupCache,
                   wpc, wtask, wref, wg, returns, commits,
                   callbacks, nextUuid>>
    /\ UNCHANGED held
    /\ UNCHANGED hvars

(* WaitForUpload, lines 572-579: the call and the first GetStatus *)
WaitForUpload(c, m) ==
    /\ CanCall(c)
    /\ nCalls' = [nCalls EXCEPT ![c] = @ + 1]
    /\ IF ~HasStatus(m.ID)
       THEN /\ returns' = returns \cup
                  {Result(NewCall(c, "WaitForUpload", m.ID), NoId, "upload not found")}
            /\ UNCHANGED <<cpc, ccall>>
       ELSE /\ cpc' = [cpc EXCEPT ![c] = "poll"]
            /\ ccall' = [ccall EXCEPT ![c] = NewCall(c, "WaitForUpload", m.ID)]
            /\ UNCHANGED returns
    /\ UNCHANGED <<queue, closed, uploads, dedupCache,
                   wpc, wtask, wref, wg, commits,
                   callbacks, nextUuid>>
    /\ UNCHANGED held
    /\ UNCHANGED hvars

(* WaitForUpload, lines 581-593: the status is terminal, or the deadline has
   passed (the caller's timeout against the clock), or the loop sleeps and
   comes back here *)
WaitForUploadPoll(c) ==
    /\ cpc[c] = "poll"
    /\ LET status == uploads[ccall[c].media] IN
       IF status.Status = "completed"
       THEN Return(c, status.ReferenceID, "")
       ELSE IF status.Status = "failed"
       THEN Return(c, NoId, "failed")
       ELSE Return(c, NoId, "upload timeout")
    /\ UNCHANGED <<queue, closed, uploads, dedupCache,
                   wpc, wtask, wref, wg, nCalls, commits,
                   callbacks, nextUuid>>
    /\ UNCHANGED held
    /\ UNCHANGED hvars

(* GetStatus, lines 565-569: the pointer stored in mu.uploads is returned;
   `seen` is what it pointed to when the call returned *)
GetStatus(c, m) ==
    /\ CanCall(c)
    /\ nCalls' = [nCalls EXCEPT ![c] = @ + 1]
    /\ held' = held \cup
          {[key |-> <<c, nCalls[c] + 1>>, media |-> m.ID,
            seen |-> IF HasStatus(m.ID) THEN uploads[m.ID] ELSE NilStatus]}
    /\ UNCHANGED <<queue, closed, uploads, dedupCache, wpc, wtask, wref, wg,
                   cpc, ccall, returns, commits, callbacks, nextUuid>>
    /\ UNCHANGED hvars

\* what a pointer handed out by GetStatus points to now: the object is the
\* one in mu.uploads as long as no later Upload has put a new one there
Live(h) ==
    /\ h.seen # NilStatus
    /\ HasStatus(h.media)
    /\ uploads[h.media].StartedAt = h.seen.StartedAt
Pointee(h) == uploads[h.media]

(* ------------------------------- Hook ---------------------------------- *)
\* graph.TraceEvent
TraceEventGraphStart == "graph_start"
TraceEventGraphEnd == "graph_end"
TraceEventNodeStart == "node_start"
TraceEventNodeEnd == "node_end"
TraceEventNodeError == "node_error"
TraceEventEdgeTraversal == "edge_traversal"
TraceEvents == {TraceEventGraphStart, TraceEventGraphEnd, TraceEventNodeStart,
                TraceEventNodeEnd, TraceEventNodeError, TraceEventEdgeTraversal}

\* node names, as the bytes of the string
ProcessData == <<"p","r","o","c","e","s","s","_","d","a","t","a">>
GptSummarize == <<"g","p","t","_","s","u","m","m","a","r","i","z","e">>
NodeNames == {ProcessData, GptSummarize}

\* the span IDs and parent IDs the events carry ("" is no parent)
ExtIDs == {"g1", "n1", "default_parent"}
ParentIDs == {"", "g1"}

\* graph.TraceSpan: the fields the handlers read.  A node_error event carries
\* an error, a node_end event does not.
TraceSpans ==
    {sp \in [Event : TraceEvents, ID : ExtIDs, ParentID : ParentIDs,
             NodeName : NodeNames, Error : BOOLEAN] :
        /\ sp.Event = TraceEventNodeError => sp.Error
        /\ sp.Event \in {TraceEventNodeEnd, TraceEventGraphStart,
                         TraceEventNodeStart, TraceEventEdgeTraversal}
              => ~sp.Error
        /\ sp.Event \in {TraceEventGraphStart, TraceEventGraphEnd,
                         TraceEventEdgeTraversal}
              => sp.NodeName = ProcessData /\ sp.ParentID = ""}

\* the GraphStart event for an external id, as TraceSpans holds it
GraphStartSpan(id) ==
    [Event |-> TraceEventGraphStart, ID |-> id, ParentID |-> "",
     NodeName |-> ProcessData, Error |-> FALSE]
\* the NodeStart and NodeEnd / NodeError events, as TraceSpans holds them
NodeStartSpan(id, parent, name) ==
    [Event |-> TraceEventNodeStart, ID |-> id, ParentID |-> parent,
     NodeName |-> name, Error |-> FALSE]
NodeEndSpan(event, id, parent, name) ==
    [Event |-> event, ID |-> id, ParentID |-> parent, NodeName |-> name,
     Error |-> (event = TraceEventNodeError)]
\* the GraphEnd events, as TraceSpans holds them
GraphEndSpan(id, error) ==
    [Event |-> TraceEventGraphEnd, ID |-> id, ParentID |-> "",
     NodeName |-> ProcessData, Error |-> error]

Inputs == {"in1", "in2"}
NilInput == "nil"

\* h.config.TraceName
TraceName == <<"l","a","n","g","g","r","a","p","h","_","w","o","r","k","f","l","o","w">>
GenerationSuffix == <<"_","g","e","n","e","r","a","t","i","o","n">>

UpperCase == <<"A","B","C","D","E","F","G","H","I","J","K","L","M",
               "N","O","P","Q","R","S","T","U","V","W","X","Y","Z">>
LowerCase == <<"a","b","c","d","e","f","g","h","i","j","k","l","m",
               "n","o","p","q","r","s","t","u","v","w","x","y","z">>

toLowerCase(s) ==
    [i \in 1..Len(s) |->
        IF \E k \in 1..Len(UpperCase) : UpperCase[k] = s[i]
        THEN LowerCase[CHOOSE k \in 1..Len(UpperCase) : UpperCase[k] = s[i]]
        ELSE s[i]]

indexOf(s, substr) ==
    LET at == {i \in 0..(Len(s) - Len(substr)) :
                  SubSeq(s, i + 1, i + Len(substr)) = substr}
    IN IF at = {} THEN -1 ELSE CHOOSE i \in at : \A j \in at : i <= j

containsString(s, substr) == Len(s) >= Len(substr) /\ indexOf(s, substr) >= 0

\* a comparison that does not fold the case
containsCaseSensitive(s, substr) ==
    Len(s) >= Len(substr) /\ containsString(s, substr)

containsIgnoreCase(s, substr) ==
    Len(s) >= Len(substr) /\
        (s = substr \/ containsString(toLowerCase(s), toLowerCase(substr)))

aiPatterns ==
    << <<"a","i">>, <<"l","l","m">>, <<"g","e","n","e","r","a","t","e">>,
       <<"c","o","m","p","l","e","t","i","o","n">>, <<"c","h","a","t">>,
       <<"g","p","t">>, <<"c","l","a","u","d","e">>,
       <<"g","e","m","i","n","i">>, <<"o","p","e","n","a","i">> >>

isAIOperation(nodeName) ==
    \E i \in 1..Len(aiPatterns) : containsIgnoreCase(nodeName, aiPatterns[i])

\* the node names TestExtractModel uses, and names that hold two of the
\* patterns extractModel looks for
ModelNames ==
    {<<"g","e","n","e","r","a","t","e">>,
     <<"g","p","t","_","g","e","n","e","r","a","t","i","o","n">>,
     <<"c","l","a","u","d","e","_","r","e","s","p","o","n","s","e">>,
     <<"g","e","m","i","n","i","_","a","n","a","l","y","s","i","s">>,
     <<"p","r","o","c","e","s","s">>,
     <<"G","P","T","_","c","l","a","u","d","e">>,
     <<"C","l","a","u","d","e","_","g","e","m","i","n","i">>,
     <<"c","h","a","t","_","g","e","m","i","n","i">>}
RecordNames == NodeNames \cup ModelNames

\* isAIOperation of the node names the events carry, computed once
isAINodeName == [nodeName \in RecordNames |-> isAIOperation(nodeName)]

\* --- the fields of a Generation that come from the event's metadata
\* metadata values: a string, or a value of another type
StringValue(v) == [type |-> "string", val |-> v]
OtherValue == [type |-> "int", val |-> "42"]
IsString(x) == x.type = "string"

\* a metadata map over some of the given keys
MetadatasOver(keys, values) ==
    UNION {[ks -> values] : ks \in SUBSET keys}

\* span.Metadata; the spans of TraceSpans carry none (a nil map)
NilMetadata == <<>>
SpanMetadata(sp) == IF "Metadata" \in DOMAIN sp THEN sp.Metadata ELSE NilMetadata

\* model.Usage: unset, and the estimate of lines 579-583
NoUsage == [sent |-> FALSE, Input |-> 0, Output |-> 0, Total |-> 0]
EstimatedUsage == [sent |-> TRUE, Input |-> 100, Output |-> 200, Total |-> 300]

\* the values of metadata["usage"]: an int, or a value of another type
IntValue(n) == [type |-> "int", num |-> n]
FloatValue == [type |-> "float64", num |-> 0]
TextValue == [type |-> "string", num |-> 0]
\* metadata["usage"]: a map[string]interface{}, or a value of another type
UsageMap(entries) == [type |-> "map", entries |-> entries]
NotAMap == [type |-> "string", entries |-> <<>>]

\* an estimate returned also when the usage map is there
extractUsageAlwaysEstimates(sp) == EstimatedUsage

(* extractUsage, lines 558-584 *)
extractUsage(sp) ==
    LET metadata == SpanMetadata(sp)
    IN IF "usage" \in DOMAIN metadata /\ metadata["usage"].type = "map"
       THEN LET usage == metadata["usage"].entries
                inputOk == "input" \in DOMAIN usage /\ usage["input"].type = "int"
                outputOk == "output" \in DOMAIN usage /\ usage["output"].type = "int"
                input == IF inputOk THEN usage["input"].num ELSE 0
                output == IF outputOk THEN usage["output"].num ELSE 0
            IN [sent |-> TRUE, Input |-> input, Output |-> output,
                Total |-> input + output]
       ELSE EstimatedUsage

\* a lookup that tries claude before gpt
extractModelClaudeFirst(sp) ==
    LET metadata == SpanMetadata(sp)
    IN IF "model" \in DOMAIN metadata /\ IsString(metadata["model"])
       THEN metadata["model"].val
       ELSE IF containsIgnoreCase(sp.NodeName, <<"c","l","a","u","d","e">>)
       THEN "claude-3-sonnet"
       ELSE IF containsIgnoreCase(sp.NodeName, <<"g","p","t">>)
       THEN "gpt-3.5-turbo"
       ELSE IF containsIgnoreCase(sp.NodeName, <<"g","e","m","i","n","i">>)
       THEN "gemini-pro"
       ELSE "unknown"

(* extractModel, lines 518-536 *)
extractModel(sp) ==
    LET metadata == SpanMetadata(sp)
    IN IF "model" \in DOMAIN metadata /\ IsString(metadata["model"])
       THEN metadata["model"].val
       ELSE IF containsIgnoreCase(sp.NodeName, <<"g","p","t">>)
       THEN "gpt-3.5-turbo"
       ELSE IF containsIgnoreCase(sp.NodeName, <<"c","l","a","u","d","e">>)
       THEN "claude-3-sonnet"
       ELSE IF containsIgnoreCase(sp.NodeName, <<"g","e","m","i","n","i">>)
       THEN "gemini-pro"
       ELSE "unknown"

\* --- the Sink (the Langfuse client): it takes a create or update keyed by
\* the caller's id and may reject it; what it returns carries the same id.
SinkAnswers == BOOLEAN
SinkReturnedID(id) == id

\* one call: which method, the record's ID, TraceID and Name, the parent id
\* passed along (NoId for nil), the Input, the metadata's node_name,
\* graph_span_id and status (<<>>, "" and "" when absent), whether EndTime is set,
\* and whether the Sink accepted it
SinkCall(op, id, traceID, parent, name, input, nodeName, graphSpanID, status, end, ok) ==
    [op |-> op, ID |-> id, TraceID |-> traceID, Parent |-> parent,
     Name |-> name, Input |-> input, NodeName |-> nodeName,
     GraphSpanID |-> graphSpanID, Status |-> status, End |-> end, ok |-> ok,
     Model |-> "", Usage |-> NoUsage]
StatusOf(sp) == IF sp.Error THEN "error" ELSE "completed"
FlushCall == [op |-> "flush"]

Emit(calls) ==
    /\ emitted' = calls
    /\ sinkCalls' = sinkCalls \cup {c \in Range(calls) : c.op # "flush"}

NoOp ==
    /\ emitted' = <<>>
    /\ UNCHANGED <<traces, observations, parents, hookUuid, sinkCalls>>

\* how far the events delivered so far spell GraphStart(g), NodeStart(n,
\* parent g), NodeEnd(n), GraphEnd(g) on a fresh Hook with every Sink call
\* accepted: phase 0..4, or Off once they no longer do
Off == [phase |-> -1, g |-> "", n |-> ""]
RunAfter(sp, accepted) ==
    IF ~accepted \/ ~enabled THEN Off
    ELSE IF run.phase = 0 /\ sp.Event = TraceEventGraphStart
    THEN [phase |-> 1, g |-> sp.ID, n |-> ""]
    ELSE IF run.phase = 1 /\ sp.Event = TraceEventNodeStart
            /\ sp.ParentID = run.g /\ sp.ID # run.g
    THEN [phase |-> 2, g |-> run.g, n |-> sp.ID]
    ELSE IF run.phase = 2 /\ sp.Event = TraceEventNodeEnd /\ sp.ID = run.n
    THEN [phase |-> 3, g |-> run.g, n |-> run.n]
    ELSE IF run.phase = 3 /\ sp.Event = TraceEventGraphEnd /\ sp.ID = run.g
    THEN [phase |-> 4, g |-> run.g, n |-> run.n]
    ELSE Off

Rejects(answers) == Cardinality({i \in DOMAIN answers : ~answers[i]})

\* answers: what the Sink answered to the calls of this event, in order
Delivered(sp, answers) ==
    /\ nEvents + 1 + Rejects(answers) <= MaxEvents
    /\ nEvents' = nEvents + 1 + Rejects(answers)
    /\ run' = RunAfter(sp, Rejects(answers) = 0)
    /\ started' = IF sp.Event \in {TraceEventGraphStart, TraceEventNodeStart}
                  THEN started \cup {sp.ID} ELSE started
    /\ UNCHANGED <<mu, classified, filtered, multi, identity, enabled, autoFlush, initialInput>>

DefaultParentMissing(rootSpanID) == "langgraph_wrapper" :> rootSpanID

\* the default-parent entry handleGraphStart leaves for the nodes
DefaultParentEntry(rootSpanID) == "default_parent" :> rootSpanID

(* handleGraphStart, lines 185-265 *)
handleGraphStart(sp) ==
    \E traceOK \in SinkAnswers, rootOK \in SinkAnswers :
       LET traceID == Uuid(hookUuid)
           rootSpanID == SinkReturnedID(Uuid(hookUuid + 1))
           traceCall == SinkCall("trace", traceID, traceID, NoId, TraceName,
                                 initialInput, <<>>, sp.ID, "", FALSE, traceOK)
           rootCall == SinkCall("span", Uuid(hookUuid + 1), traceID, NoId,
                                TraceName, initialInput, <<>>, sp.ID, "", FALSE,
                                rootOK)
       IN IF ~traceOK
          THEN /\ rootOK
               /\ hookUuid' = hookUuid + 1
               /\ Emit(<<traceCall>>)
               /\ UNCHANGED <<traces, observations, parents>>
               /\ Delivered(sp, <<FALSE>>)
          ELSE /\ hookUuid' = hookUuid + 2
               /\ Emit(<<traceCall, rootCall>>)
               /\ traces' = Put(traces, sp.ID, [ID |-> traceID, status |-> ""])
               /\ observations' =
                     (sp.ID :> rootSpanID) @@ DefaultParentEntry(rootSpanID)
                        @@ ("langgraph_wrapper" :> rootSpanID) @@ observations
               /\ parents' = Put(parents, rootSpanID, NoId)
               /\ Delivered(sp, <<TRUE, rootOK>>)

\* a handleGraphEnd that gives up when the Sink rejects the Trace update
handleGraphEndStopsOnFailure(sp) ==
    IF sp.ID \notin DOMAIN traces
    THEN NoOp /\ Delivered(sp, <<>>)
    ELSE \E traceOK \in SinkAnswers, rootOK \in SinkAnswers :
       LET trace == traces[sp.ID]
           traceCall == SinkCall("trace", trace.ID, trace.ID, NoId, <<>>,
                                 NilInput, <<>>, sp.ID, StatusOf(sp), TRUE,
                                 traceOK)
           rootCall == SinkCall("span", observations[sp.ID], trace.ID, NoId,
                                TraceName, NilInput, <<>>, "", "", TRUE, rootOK)
           rootCalls == IF sp.ID \in DOMAIN observations THEN <<rootCall>>
                        ELSE <<>>
           flush == IF autoFlush THEN <<FlushCall>> ELSE <<>>
       IN /\ (sp.ID \notin DOMAIN observations \/ ~traceOK) => rootOK
          /\ traces' = [traces EXCEPT ![sp.ID].status = StatusOf(sp)]
          /\ Emit(IF traceOK THEN <<traceCall>> \o rootCalls \o flush
                  ELSE <<traceCall>>)
          /\ UNCHANGED <<observations, parents, hookUuid>>
          /\ Delivered(sp, <<traceOK, rootOK>>)

(* handleGraphEnd, lines 268-320 *)
handleGraphEnd(sp) ==
    IF sp.ID \notin DOMAIN traces
    THEN NoOp /\ Delivered(sp, <<>>)
    ELSE \E traceOK \in SinkAnswers, rootOK \in SinkAnswers :
       LET trace == traces[sp.ID]
           traceCall == SinkCall("trace", trace.ID, trace.ID, NoId, <<>>,
                                 NilInput, <<>>, sp.ID, StatusOf(sp), TRUE,
                                 traceOK)
           rootCall == SinkCall("span", observations[sp.ID], trace.ID, NoId,
                                TraceName, NilInput, <<>>, "", "", TRUE, rootOK)
           rootCalls == IF sp.ID \in DOMAIN observations THEN <<rootCall>>
                        ELSE <<>>
           flush == IF autoFlush THEN <<FlushCall>> ELSE <<>>
       IN /\ sp.ID \notin DOMAIN observations => rootOK
          /\ traces' = [traces EXCEPT ![sp.ID].status = StatusOf(sp)]
          /\ Emit(<<traceCall>> \o rootCalls \o flush)
          /\ UNCHANGED <<observations, parents, hookUuid>>
          /\ Delivered(sp, <<traceOK, rootOK>>)

\* a resolution that falls back to any trace also when the declared parent
\* is unknown
ResolveTraceAlwaysFallsBack(sp) ==
    IF sp.ParentID # "" /\ sp.ParentID \in DOMAIN traces
    THEN {traces[sp.ParentID].ID}
    ELSE {traces[k].ID : k \in DOMAIN traces}

\* the traces handleNodeStart may resolve for an event: the declared
\* parent's, or, with no parent declared, the first one the map iteration
\* yields (any of them)
ResolveTrace(sp) ==
    IF sp.ParentID # ""
    THEN IF sp.ParentID \in DOMAIN traces THEN {traces[sp.ParentID].ID} ELSE {}
    ELSE {traces[k].ID : k \in DOMAIN traces}

\* a parent that is the new observation itself
NodeParentItself == IF "default_parent" \in DOMAIN observations
                    THEN Uuid(hookUuid) ELSE NoId

\* the parent handleNodeStart gives a new observation
NodeParent == IF "default_parent" \in DOMAIN observations
              THEN observations["default_parent"] ELSE NoId

(* handleNodeStart, lines 323-415 *)
handleNodeStart(sp) ==
    IF ResolveTrace(sp) = {}
    THEN NoOp /\ Delivered(sp, <<>>)
    ELSE \E traceID \in ResolveTrace(sp), ok \in SinkAnswers :
       LET spanID == Uuid(hookUuid)
           hasParent == "default_parent" \in DOMAIN observations
           isAINode == isAINodeName[sp.NodeName]
           call == IF isAINode
                   THEN [SinkCall("generation", spanID, traceID, NodeParent,
                                  sp.NodeName \o GenerationSuffix, NilInput,
                                  sp.NodeName, sp.ID, "", FALSE, ok)
                           EXCEPT !.Model = extractModel(sp)]
                   ELSE SinkCall("span", spanID, traceID, NodeParent,
                                 sp.NodeName, NilInput, sp.NodeName, sp.ID, "",
                                 FALSE, ok)
       IN /\ hookUuid' = hookUuid + 1
          /\ Emit(<<call>>)
          /\ UNCHANGED traces
          /\ IF ok
             THEN /\ parents' = IF hasParent
                                THEN Put(parents, SinkReturnedID(spanID), NodeParent)
                                ELSE parents
                  /\ observations' = Put(observations, sp.ID, SinkReturnedID(spanID))
             ELSE UNCHANGED <<observations, parents>>
          /\ Delivered(sp, <<ok>>)

\* a handleNodeEnd that also detaches the observation from its parent
handleNodeEndRelinks(sp) ==
    IF \/ sp.ID \notin DOMAIN observations
       \/ sp.ParentID = ""
       \/ sp.ParentID \notin DOMAIN traces
    THEN NoOp /\ Delivered(sp, <<>>)
    ELSE \E ok \in SinkAnswers :
       LET obsID == observations[sp.ID]
           traceID == traces[sp.ParentID].ID
           parentObsID == IF obsID \in DOMAIN parents /\ parents[obsID] # NoId
                          THEN parents[obsID] ELSE NoId
           call == IF isAINodeName[sp.NodeName]
                   THEN [SinkCall("generation", obsID, traceID, parentObsID,
                                  sp.NodeName \o GenerationSuffix, NilInput,
                                  sp.NodeName, "", StatusOf(sp), TRUE, ok)
                           EXCEPT !.Usage = extractUsage(sp)]
                   ELSE SinkCall("span", obsID, traceID, parentObsID,
                                 sp.NodeName, NilInput, sp.NodeName, "",
                                 StatusOf(sp), TRUE, ok)
       IN /\ Emit(<<call>>)
          /\ parents' = Put(parents, obsID, NoId)
          /\ UNCHANGED <<traces, observations, hookUuid>>
          /\ Delivered(sp, <<ok>>)

(* handleNodeEnd, lines 418-491 *)
handleNodeEnd(sp) ==
    IF \/ sp.ID \notin DOMAIN observations
       \/ sp.ParentID = ""
       \/ sp.ParentID \notin DOMAIN traces
    THEN NoOp /\ Delivered(sp, <<>>)
    ELSE \E ok \in SinkAnswers :
       LET obsID == observations[sp.ID]
           traceID == traces[sp.ParentID].ID
           parentObsID == IF obsID \in DOMAIN parents /\ parents[obsID] # NoId
                          THEN parents[obsID] ELSE NoId
           call == IF isAINodeName[sp.NodeName]
                   THEN [SinkCall("generation", obsID, traceID, parentObsID,
                                  sp.NodeName \o GenerationSuffix, NilInput,
                                  sp.NodeName, "", StatusOf(sp), TRUE, ok)
                           EXCEPT !.Usage = extractUsage(sp)]
                   ELSE SinkCall("span", obsID, traceID, parentObsID,
                                 sp.NodeName, NilInput, sp.NodeName, "",
                                 StatusOf(sp), TRUE, ok)
       IN /\ Emit(<<call>>)
          /\ UNCHANGED <<traces, observations, parents, hookUuid>>
          /\ Delivered(sp, <<ok>>)

\* an OnEvent that dispatches without looking at h.enabled
OnEventUnguarded(sp) ==
    /\ nEvents < MaxEvents
    /\ UNCHANGED mvars
    /\ CASE sp.Event = TraceEventGraphStart -> handleGraphStart(sp)
         [] sp.Event = TraceEventGraphEnd -> handleGraphEnd(sp)
         [] sp.Event = TraceEventNodeStart -> handleNodeStart(sp)
         [] sp.Event \in {TraceEventNodeEnd, TraceEventNodeError}
               -> handleNodeEnd(sp)
         [] sp.Event = TraceEventEdgeTraversal
               -> NoOp /\ Delivered(sp, <<>>)

(* OnEvent, lines 164-182 *)
OnEvent(sp) ==
    /\ nEvents < MaxEvents
    /\ UNCHANGED mvars
    /\ IF ~enabled
       THEN NoOp /\ Delivered(sp, <<>>)
       ELSE CASE sp.Event = TraceEventGraphStart -> handleGraphStart(sp)
              [] sp.Event = TraceEventGraphEnd -> handleGraphEnd(sp)
              [] sp.Event = TraceEventNodeStart -> handleNodeStart(sp)
              [] sp.Event \in {TraceEventNodeEnd, TraceEventNodeError}
                    -> handleNodeEnd(sp)
              [] sp.Event = TraceEventEdgeTraversal
                    -> NoOp /\ Delivered(sp, <<>>)

\* a SetInitialInput that keeps the first value it was given
SetInitialInputKeepsFirst(input) ==
    /\ nEvents < MaxEvents
    /\ nEvents' = nEvents + 1
    /\ initialInput' = IF initialInput = NilInput THEN input ELSE initialInput
    /\ emitted' = <<>>
    /\ UNCHANGED <<mu, classified, filtered, multi, identity, enabled, autoFlush, traces, observations, parents, hookUuid,
                   sinkCalls, started, run>>
    /\ UNCHANGED mvars

(* SetInitialInput, lines 157-161 *)
SetInitialInput(input) ==
    /\ nEvents < MaxEvents
    /\ nEvents' = nEvents + 1
    /\ initialInput' = input
    /\ emitted' = <<>>
    /\ UNCHANGED <<mu, classified, filtered, multi, identity, enabled, autoFlush, traces, observations, parents, hookUuid,
                   sinkCalls, started, run>>
    /\ UNCHANGED mvars

(* Flush, lines 494-499 *)
Flush ==
    /\ nEvents < MaxEvents
    /\ nEvents' = nEvents + 1
    /\ emitted' = IF enabled THEN <<FlushCall>> ELSE <<>>
    /\ UNCHANGED <<mu, classified, filtered, multi, identity, enabled, autoFlush, traces, observations, parents,
                   initialInput, hookUuid, sinkCalls, started, run>>
    /\ UNCHANGED mvars

(* ------- one run whose node events carry metadata: model and usage ------- *)
\* span.Metadata of the NodeStart events: "model" absent, a string, the
\* empty string, or a value that is no string
ModelMetadatas ==
    MetadatasOver({"model"}, {StringValue("gpt-4"), StringValue(""), OtherValue})

\* the values of usage["input"] and usage["output"]
UsageValues == {IntValue(0), IntValue(7), IntValue(2000), FloatValue, TextValue}
\* span.Metadata of the NodeEnd / NodeError events: "usage" absent, a value
\* that is no map, or a map over some of input and output
UsageMetadatas ==
    MetadatasOver({"usage"},
        {NotAMap} \cup {UsageMap(u) :
                           u \in MetadatasOver({"input", "output"}, UsageValues)})

RecordStartSpans ==
    [Event : {TraceEventNodeStart}, ID : {"n1"}, ParentID : {"g1"},
     NodeName : RecordNames, Error : {FALSE}, Metadata : ModelMetadatas]
RecordEndSpans ==
    {sp \in [Event : {TraceEventNodeEnd, TraceEventNodeError}, ID : {"n1"},
             ParentID : {"g1"}, NodeName : NodeNames, Error : BOOLEAN,
             Metadata : UsageMetadatas] :
        sp.Error = (sp.Event = TraceEventNodeError)}

\* the core delivers one run: GraphStart(g1), then NodeStart(n1) once, then
\* one NodeEnd or NodeError for n1
NextHookRecords ==
    \/ /\ nEvents = 0
       /\ OnEvent(GraphStartSpan("g1"))
    \/ \E sp \in RecordStartSpans :
          /\ "g1" \in started
          /\ "n1" \notin started
          /\ OnEvent(sp)
    \/ \E sp \in RecordEndSpans :
          /\ "n1" \in started
          /\ \A c \in sinkCalls : ~c.End
          /\ OnEvent(sp)

(* ---------------- handleGraphStart: userID and sessionID ---------------- *)
MetadataKeys == {"user_id", "session_id"}
\* a metadata map over some of the keys
Metadatas(values) ==
    UNION {[keys -> values] : keys \in SUBSET MetadataKeys}

\* lines 192-199: DefaultMetadata first, the event's metadata over it
MergeMetadata(defaultMetadata, spanMetadata) == spanMetadata @@ defaultMetadata

\* lines 200-202: the three fields handleGraphStart sets itself
DerivedFields(spanID) ==
    [graph_span_id |-> StringValue(spanID),
     sdk |-> StringValue("langfuse-go/langgraph"),
     sdk_version |-> StringValue("1.0.0")]

\* a merge that writes the derived fields first
TraceMetadataDerivedFirst(defaultMetadata, spanMetadata, spanID) ==
    MergeMetadata(defaultMetadata, spanMetadata) @@ DerivedFields(spanID)

\* lines 192-202: the metadata of the Trace
TraceMetadata(defaultMetadata, spanMetadata, spanID) ==
    DerivedFields(spanID) @@ MergeMetadata(defaultMetadata, spanMetadata)

\* fmt.Sprintf("graph_%s", traceID)
GraphSession(traceID) == <<"graph_", traceID>>

\* lines 204-215.  sessionID gets its synthesized value before the metadata
\* is looked at, so the metadata's session_id never finds it empty.
ResolveUserID(configUserID, metadata) ==
    IF "user_id" \in DOMAIN metadata /\ IsString(metadata["user_id"])
          /\ configUserID = ""
    THEN metadata["user_id"].val
    ELSE configUserID

ResolveSessionID(configSessionID, metadata, traceID) ==
    LET sessionID == IF configSessionID = "" THEN GraphSession(traceID)
                     ELSE <<configSessionID>>
    IN IF "session_id" \in DOMAIN metadata /\ IsString(metadata["session_id"])
          /\ sessionID = <<"">>
       THEN <<metadata["session_id"].val>>
       ELSE sessionID

\* the configurations and events the resolution is tried on
ConfigIDs == {"", "configured"}
IdentityInputs ==
    [UserID : ConfigIDs, SessionID : ConfigIDs,
     DefaultMetadata : Metadatas({StringValue("default")}),
     Metadata : Metadatas({StringValue("event"), OtherValue}),
     traceID : {Uuid(1)}, ID : {"g1"}]

\* the configurations and events the merge is tried on: keys that only the
\* maps carry, and keys handleGraphStart sets itself
TraceMetadataKeys == {"env", "sdk", "graph_span_id"}
TraceMetadataInputs ==
    [UserID : {""}, SessionID : {""},
     DefaultMetadata : MetadatasOver(TraceMetadataKeys, {StringValue("default")}),
     Metadata : MetadatasOver(TraceMetadataKeys, {StringValue("event"), OtherValue}),
     traceID : {Uuid(1)}, ID : {"g1", "n1"}]

NoIdentity == [done |-> FALSE]

\* h.mu with no goroutine inside a locked section
Unlocked == [c \in Callers |-> NoCall]

InitIdentity == identity \in {[done |-> FALSE, in |-> i] : i \in IdentityInputs}

InitTraceMetadata ==
    identity \in {[done |-> FALSE, in |-> i] : i \in TraceMetadataInputs}

(* handleGraphStart, lines 192-226, as far as the Trace's metadata, userID
   and sessionID go *)
ResolveIdentity ==
    /\ ~identity.done
    /\ "in" \in DOMAIN identity
    /\ LET in == identity.in
           metadata == TraceMetadata(in.DefaultMetadata, in.Metadata, in.ID)
       IN identity' =
             [done |-> TRUE, in |-> in, metadata |-> metadata,
              userID |-> ResolveUserID(in.UserID, metadata),
              sessionID |-> ResolveSessionID(in.SessionID, metadata, in.traceID)]
    /\ UNCHANGED <<enabled, autoFlush, traces, observations, parents,
                   initialInput, hookUuid, sinkCalls, emitted, started, run,
                   nEvents, classified, filtered, multi, mu>>
    /\ UNCHANGED mvars

\* --- the Classifier alone: isAIOperation applied to one node name

\* the longest name built from the letters below
MaxNameLen == 3

\* the names TestIsAIOperation classifies, names in other cases, names that
\* match inside a word, and every name of up to MaxNameLen of these letters
TestedNames ==
    {<<"g","e","n","e","r","a","t","e","_","r","e","s","p","o","n","s","e">>,
     <<"a","i","_","c","o","m","p","l","e","t","i","o","n">>,
     <<"l","l","m","_","c","a","l","l">>,
     <<"c","h","a","t","_","r","e","s","p","o","n","s","e">>,
     <<"g","p","t","_","x">>,
     <<"c","l","a","u","d","e","_","x">>,
     <<"g","e","m","i","n","i","_","x">>,
     <<"o","p","e","n","a","i","_","x">>,
     <<"p","r","o","c","e","s","s","_","d","a","t","a">>,
     <<"v","a","l","i","d","a","t","e","_","i","n","p","u","t">>,
     <<"t","r","a","n","s","f","o","r","m","_","o","u","t","p","u","t">>,
     <<"g","p","t","_","g","e","n","e","r","a","t","i","o","n">>,
     <<"c","l","a","u","d","e","_","a","n","a","l","y","s","i","s">>,
     <<"g","e","m","i","n","i","_","r","e","s","p","o","n","s","e">>,
     <<"o","p","e","n","a","i","_","c","o","m","p","l","e","t","i","o","n">>}
OtherNames ==
    {<<"G","P","T","_","X">>,
     <<"O","p","e","n","A","I","_","x">>,
     <<"L","L","M","_","C","a","l","l">>,
     <<"C","h","a","t","B","o","t">>,
     <<"e","m","a","i","l","_","s","e","n","d","e","r">>,
     <<"s","u","m","m","a","r","i","z","e">>,
     <<"x">>}
NameLetters == {"a", "i", "A", "I", "_"}
ShortNames == UNION {[1..n -> NameLetters] : n \in 1..MaxNameLen}
ClassifierNames == TestedNames \cup OtherNames \cup ShortNames

NoName == [done |-> FALSE]

InitClassifier == classified \in {[done |-> FALSE, name |-> n] : n \in ClassifierNames}

(* handleNodeStart, lines 347-348: isAINode := h.isAIOperation(span.NodeName) *)
Classify ==
    /\ ~classified.done
    /\ "name" \in DOMAIN classified
    /\ classified' = [done |-> TRUE, name |-> classified.name,
                      generation |-> isAIOperation(classified.name)]
    /\ UNCHANGED <<enabled, autoFlush, traces, observations, parents,
                   initialInput, hookUuid, sinkCalls, emitted, started, run,
                   nEvents, identity, filtered, multi, mu>>
    /\ UNCHANGED mvars

\* --- FilteredHook (types.go): a filter in front of a wrapped hook

\* calls of FilteredHook.OnEvent in one behaviour
MaxFilterCalls == 2

\* time.Duration values: of the spans, and of EventFilter.MinDuration
Durations == {1, 3}
MinDurations == {-2, 0, 2}

\* EventFilter; the two lists are only searched, so their sets stand for them
EventFilters ==
    [IncludeEvents : SUBSET {TraceEventNodeStart, TraceEventNodeEnd,
                             TraceEventGraphEnd},
     ExcludeEvents : SUBSET {TraceEventNodeEnd, TraceEventEdgeTraversal},
     MinDuration : MinDurations]

\* graph.TraceSpan: the fields FilteredHook.OnEvent reads
FilteredSpans == [Event : TraceEvents, Duration : Durations]

\* a duration check applied to every event, not only to the end events
FilterPassesLongOnly(filter, span) ==
    IF span.Event \in filter.ExcludeEvents THEN FALSE
    ELSE IF filter.IncludeEvents # {} /\ span.Event \notin filter.IncludeEvents
    THEN FALSE
    ELSE IF filter.MinDuration > 0 /\ span.Duration < filter.MinDuration
    THEN FALSE
    ELSE TRUE

(* FilteredHook.OnEvent, types.go lines 217-244: the three early returns *)
FilterPasses(filter, span) ==
    IF span.Event \in filter.ExcludeEvents THEN FALSE
    ELSE IF filter.IncludeEvents # {} /\ span.Event \notin filter.IncludeEvents
    THEN FALSE
    ELSE IF /\ span.Event \in {TraceEventNodeEnd, TraceEventGraphEnd}
            /\ filter.MinDuration > 0
            /\ span.Duration < filter.MinDuration
    THEN FALSE
    ELSE TRUE

NoFilteredHook == [calls |-> <<>>]

(* NewFilteredHook, types.go lines 209-214, around a hook that records *)
InitFilteredHook ==
    filtered \in {[filter |-> f, calls |-> <<>>, received |-> <<>>] :
                     f \in EventFilters}

(* FilteredHook.OnEvent, types.go lines 216-248 *)
FilteredOnEvent(span) ==
    /\ "filter" \in DOMAIN filtered
    /\ Len(filtered.calls) < MaxFilterCalls
    /\ filtered' =
          [filtered EXCEPT
              !.calls = Append(@, span),
              !.received = IF FilterPasses(filtered.filter, span)
                           THEN Append(@, span) ELSE @]
    /\ UNCHANGED <<enabled, autoFlush, traces, observations, parents,
                   initialInput, hookUuid, sinkCalls, emitted, started, run,
                   nEvents, identity, classified, multi, mu>>
    /\ UNCHANGED mvars

\* --- MultiHook (types.go): one event handed to several hooks

\* the longest m.hooks, and the calls of MultiHook.OnEvent in one behaviour
MaxHooks == 3
MaxMultiEvents == 2

HookPool == {"hook1", "hook2"}

NoMultiHook == [i |-> 0]

\* m.hooks with, per entry, the number of OnEvent calls begun when it was
\* registered (0 for the hooks NewMultiHook was given); ranging and i are
\* the loop of the OnEvent call in progress, event is its number
(* NewMultiHook, types.go lines 256-258 *)
InitMultiHook ==
    multi \in {[hooks |-> h, addedAt |-> [k \in DOMAIN h |-> 0], ranging |-> <<>>,
                i |-> 0, event |-> 0, received |-> <<>>] :
                  h \in UNION {[1..n -> HookPool] : n \in 0..2}}

\* a loop that reads m.hooks anew at every iteration
RangeOverCurrent(m) == m.hooks

\* the slice `for _, hook := range m.hooks` iterates: m.hooks as evaluated
\* once, when the loop starts
RangeOver(m) == m.ranging

MultiUnchanged ==
    /\ UNCHANGED <<enabled, autoFlush, traces, observations, parents,
                   initialInput, hookUuid, sinkCalls, emitted, started, run,
                   nEvents, identity, classified, filtered, mu>>
    /\ UNCHANGED mvars

(* MultiHook.OnEvent, types.go line 262: the range expression is evaluated *)
MultiOnEvent ==
    /\ "hooks" \in DOMAIN multi
    /\ multi.i = 0
    /\ multi.event < MaxMultiEvents
    /\ multi' = [multi EXCEPT !.ranging = multi.hooks, !.i = 1,
                              !.event = @ + 1]
    /\ MultiUnchanged

(* MultiHook.OnEvent, types.go line 263: hook.OnEvent(ctx, span) *)
MultiDeliver ==
    /\ multi.i > 0
    /\ multi.i <= Len(RangeOver(multi))
    /\ multi' = [multi EXCEPT
                    !.received = Append(@, [hook |-> RangeOver(multi)[multi.i],
                                            event |-> multi.event,
                                            pos |-> multi.i]),
                    !.i = @ + 1]
    /\ MultiUnchanged

(* MultiHook.OnEvent, types.go lines 262-265: the loop ends *)
MultiReturn ==
    /\ multi.i > 0
    /\ multi.i > Len(RangeOver(multi))
    /\ multi' = [multi EXCEPT !.ranging = <<>>, !.i = 0]
    /\ MultiUnchanged

(* MultiHook.AddHook, types.go lines 268-270; called between two OnEvent
   calls or by a hook from inside its own OnEvent *)
AddHook(hook) ==
    /\ "hooks" \in DOMAIN multi
    /\ Len(multi.hooks) < MaxHooks
    /\ multi' = [multi EXCEPT !.hooks = Append(@, hook),
                              !.addedAt = Append(@, multi.event)]
    /\ MultiUnchanged

NextMulti ==
    \/ MultiOnEvent
    \/ MultiDeliver
    \/ MultiReturn
    \/ \E hook \in HookPool : AddHook(hook)

(* NewHook / NewHookWithClient, lines 91-154 *)
InitHook ==
    /\ enabled \in BOOLEAN
    /\ autoFlush \in BOOLEAN
    /\ traces = <<>>
    /\ observations = <<>>
    /\ parents = <<>>
    /\ initialInput = NilInput
    /\ hookUuid = 1
    /\ sinkCalls = {}
    /\ emitted = <<>>
    /\ started = {}
    /\ run = [phase |-> 0, g |-> "", n |-> ""]
    /\ nEvents = 0
    /\ identity = NoIdentity
    /\ mu = Unlocked
    /\ classified = NoName
    /\ filtered = NoFilteredHook
    /\ multi = NoMultiHook

NextHook ==
    \/ \E sp \in TraceSpans : OnEvent(sp)
    \/ \E input \in Inputs : SetInitialInput(input)
    \/ Flush

\* the Hook alone: the uploader stays as constructed
InitSpecHook == InitHook /\ InitMedia

SpecHook == InitSpecHook /\ [][NextHook]_vars

NextMedia ==
    \/ \E c \in Callers, m \in MediaPool : UploadCheck(c, m)
    \/ \E c \in Callers : UploadRegister(c)
    \/ \E c \in Callers : UploadSelect(c)
    \/ \E c \in Callers, m \in MediaPool : UploadWithCallbackBegin(c, m)
    \/ \E c \in Callers : UploadWithCallbackSend(c)
    \/ \E w \in Workers : WorkerReceive(w)
    \/ \E w \in Workers : WorkerMark(w)
    \/ \E w \in Workers : WorkerCommit(w)
    \/ \E w \in Workers : WorkerFinish(w)
    \/ \E c \in Callers : ShutdownClose(c)
    \/ \E c \in Callers : ShutdownWait(c)
    \/ \E c \in Callers, m \in MediaPool : WaitForUpload(c, m)
    \/ \E c \in Callers : WaitForUploadPoll(c)
    \/ \E c \in Callers, m \in MediaPool : GetStatus(c, m)

\* the uploader alone: the Hook stays as constructed
InitIdleHook ==
    /\ enabled = TRUE
    /\ autoFlush = TRUE
    /\ traces = <<>>
    /\ observations = <<>>
    /\ parents = <<>>
    /\ initialInput = NilInput
    /\ hookUuid = 1
    /\ sinkCalls = {}
    /\ emitted = <<>>
    /\ started = {}
    /\ run = [phase |-> 0, g |-> "", n |-> ""]
    /\ nEvents = 0
    /\ identity = NoIdentity
    /\ mu = Unlocked
    /\ classified = NoName
    /\ filtered = NoFilteredHook
    /\ multi = NoMultiHook

\* the resolution alone, on every configuration and metadata
InitSpecIdentity ==
    /\ InitMedia
    /\ enabled = TRUE
    /\ autoFlush = TRUE
    /\ traces = <<>>
    /\ observations = <<>>
    /\ parents = <<>>
    /\ initialInput = NilInput
    /\ hookUuid = 1
    /\ sinkCalls = {}
    /\ emitted = <<>>
    /\ started = {}
    /\ run = [phase |-> 0, g |-> "", n |-> ""]
    /\ nEvents = 0
    /\ InitIdentity
    /\ mu = Unlocked
    /\ classified = NoName
    /\ filtered = NoFilteredHook
    /\ multi = NoMultiHook

SpecIdentity == InitSpecIdentity /\ [][ResolveIdentity]_vars

\* the metadata merge alone, on every pair of maps
InitSpecTraceMetadata ==
    /\ InitMedia
    /\ enabled = TRUE
    /\ autoFlush = TRUE
    /\ traces = <<>>
    /\ observations = <<>>
    /\ parents = <<>>
    /\ initialInput = NilInput
    /\ hookUuid = 1
    /\ sinkCalls = {}
    /\ emitted = <<>>
    /\ started = {}
    /\ run = [phase |-> 0, g |-> "", n |-> ""]
    /\ nEvents = 0
    /\ InitTraceMetadata
    /\ mu = Unlocked
    /\ classified = NoName
    /\ filtered = NoFilteredHook
    /\ multi = NoMultiHook

SpecTraceMetadata == InitSpecTraceMetadata /\ [][ResolveIdentity]_vars

\* a Hook as constructed, enabled, with nothing delivered
InitIdleTables ==
    /\ enabled = TRUE
    /\ autoFlush = TRUE
    /\ traces = <<>>
    /\ observations = <<>>
    /\ parents = <<>>
    /\ initialInput = NilInput
    /\ hookUuid = 1
    /\ sinkCalls = {}
    /\ emitted = <<>>
    /\ started = {}
    /\ run = [phase |-> 0, g |-> "", n |-> ""]
    /\ nEvents = 0
    /\ identity = NoIdentity
    /\ mu = Unlocked

\* the Classifier alone, on every name
InitSpecClassifier ==
    /\ InitMedia
    /\ InitIdleTables
    /\ InitClassifier
    /\ filtered = NoFilteredHook
    /\ multi = NoMultiHook

SpecClassifier == InitSpecClassifier /\ [][Classify]_vars

\* --- the Hook under concurrent callers: h.mu.Lock() at the top of a
\* handler, the handler's body, the deferred h.mu.Unlock()

\* the calls the goroutines make: one run's four events, and an input
LockedCalls ==
    {[op |-> "OnEvent", span |-> sp, input |-> NilInput] :
        sp \in {GraphStartSpan("g1"),
                NodeStartSpan("n1", "g1", GptSummarize),
                NodeEndSpan(TraceEventNodeEnd, "n1", "g1", GptSummarize),
                GraphEndSpan("g1", FALSE)}}
    \cup {[op |-> "SetInitialInput", span |-> GraphStartSpan("g1"),
           input |-> "in1"]}

\* mu[c].at of a goroutine that has called and waits in h.mu.Lock()
Waiting == -1

\* the goroutines inside a locked section
Holders == {c \in Callers : mu[c] # NoCall /\ mu[c].at # Waiting}

\* a lock that admits a goroutine while another is inside
MuFreeShared == TRUE

\* sync.RWMutex.Lock returns once no goroutine holds the lock
MuFree == Holders = {}

LockUnchanged ==
    /\ UNCHANGED <<enabled, autoFlush, traces, observations, parents,
                   initialInput, hookUuid, sinkCalls, emitted, started, run,
                   nEvents, identity, classified, filtered, multi>>
    /\ UNCHANGED mvars

(* h.mu.Lock(), lines 158, 186, 269, 324, 419 *)
HookLock(c, call) ==
    /\ mu[c] = NoCall
    /\ MuFree
    /\ nEvents < MaxEvents
    /\ mu' = [mu EXCEPT ![c] = [op |-> call.op, span |-> call.span,
                                input |-> call.input, at |-> nEvents]]
    /\ LockUnchanged

(* the body of the handler or of SetInitialInput, run by the goroutine that
   took the lock *)
HookBody(c) ==
    /\ mu[c] # NoCall
    /\ mu[c].at = nEvents
    /\ IF mu[c].op = "OnEvent" THEN OnEvent(mu[c].span)
       ELSE SetInitialInput(mu[c].input)

\* an unlock that is skipped when the handler returned early
HookUnlockNotOnEarlyReturn(c) ==
    /\ c \in Holders
    /\ mu[c].at < nEvents
    /\ emitted # <<>>
    /\ mu' = [mu EXCEPT ![c] = NoCall]
    /\ LockUnchanged

(* defer h.mu.Unlock(), lines 159, 187, 270, 325, 420: the call returns *)
HookUnlock(c) ==
    /\ c \in Holders
    /\ mu[c].at < nEvents
    /\ mu' = [mu EXCEPT ![c] = NoCall]
    /\ LockUnchanged

NextHookLocked ==
    \/ \E c \in Callers, call \in LockedCalls : HookLock(c, call)
    \/ \E c \in Callers : HookBody(c)
    \/ \E c \in Callers : HookUnlock(c)

\* --- the same, with the goroutines blocked in h.mu.Lock() and with Flush

\* the most one call adds to nEvents: itself and two rejected Sink calls
MaxCallCost == 3

\* the goroutines whose handler body has not run yet
BodyToRun ==
    {c \in Callers : mu[c] # NoCall
                        /\ (mu[c].at = Waiting \/ mu[c].at = nEvents)}

(* a goroutine calls SetInitialInput or OnEvent and reaches h.mu.Lock();
   the bound on events leaves room for the calls already begun *)
HookCall(c, call) ==
    /\ mu[c] = NoCall
    /\ nEvents + MaxCallCost * Cardinality(BodyToRun) < MaxEvents
    /\ mu' = [mu EXCEPT ![c] = [op |-> call.op, span |-> call.span,
                                input |-> call.input, at |-> Waiting]]
    /\ LockUnchanged

(* h.mu.Lock() returns to a goroutine blocked in it *)
HookAcquire(c) ==
    /\ mu[c] # NoCall
    /\ mu[c].at = Waiting
    /\ MuFree
    /\ mu' = [mu EXCEPT ![c].at = nEvents]
    /\ LockUnchanged

(* Flush, lines 494-499, called while other goroutines are in handlers: it
   takes no lock *)
FlushUnlocked ==
    /\ emitted' = IF enabled THEN <<FlushCall>> ELSE <<>>
    /\ UNCHANGED <<mu, classified, filtered, multi, identity, enabled,
                   autoFlush, traces, observations, parents, initialInput,
                   hookUuid, sinkCalls, started, run, nEvents>>
    /\ UNCHANGED mvars

NextHookCalls ==
    \/ \E c \in Callers, call \in LockedCalls : HookCall(c, call)
    \/ \E c \in Callers : HookAcquire(c)
    \/ \E c \in Callers : HookBody(c)
    \/ \E c \in Callers : HookUnlock(c)
    \/ FlushUnlocked

InitSpecHookLocked ==
    /\ InitMedia
    /\ InitIdleTables
    /\ classified = NoName
    /\ filtered = NoFilteredHook
    /\ multi = NoMultiHook

SpecHookLocked == InitSpecHookLocked /\ [][NextHookLocked]_vars

\* The callers are goroutines of a running process, and the Sink answers
\* every call: a goroutine blocked in Lock gets the lock when it stays free,
\* a handler that holds the lock runs its body, and its return unlocks.
FairSpecHookCalls ==
    /\ InitSpecHookLocked
    /\ [][NextHookCalls]_vars
    /\ \A c \in Callers :
          /\ WF_vars(HookAcquire(c))
          /\ WF_vars(HookBody(c))
          /\ WF_vars(HookUnlock(c))

\* the Hook on one run with metadata
InitSpecHookRecords ==
    /\ InitMedia
    /\ InitIdleTables
    /\ classified = NoName
    /\ filtered = NoFilteredHook
    /\ multi = NoMultiHook

SpecHookRecords == InitSpecHookRecords /\ [][NextHookRecords]_vars

\* the FilteredHook alone, with every filter
InitSpecFiltered ==
    /\ InitMedia
    /\ InitIdleTables
    /\ classified = NoName
    /\ InitFilteredHook
    /\ multi = NoMultiHook

SpecFiltered ==
    InitSpecFiltered /\ [][\E span \in FilteredSpans : FilteredOnEvent(span)]_vars

\* the MultiHook alone
InitSpecMulti ==
    /\ InitMedia
    /\ InitIdleTables
    /\ classified = NoName
    /\ filtered = NoFilteredHook
    /\ InitMultiHook

SpecMulti == InitSpecMulti /\ [][NextMulti]_vars

InitSpecMedia == InitMedia /\ InitIdleHook

SpecMedia == InitSpecMedia /\ [][NextMedia]_vars

\* the uploader with a backlog: an earlier goroutine's Upload of the third
\* media has returned and its task waits in the queue, no worker has taken
\* it yet
EarlierCall == [op |-> "Upload", key |-> <<"c0", 1>>, media |-> Uuid(3)]
InitMediaBacklog ==
    /\ queue = <<NewTask(EarlierCall, FALSE)>>
    /\ closed = FALSE
    /\ uploads = (Uuid(3) :> NewStatus(Uuid(3), EarlierCall.key))
    /\ dedupCache = <<>>
    /\ wpc = [w \in Workers |-> "loop"]
    /\ wtask = [w \in Workers |-> NoTask]
    /\ wref = [w \in Workers |-> NoId]
    /\ wg = Cardinality(Workers)
    /\ cpc = [c \in Callers |-> "idle"]
    /\ ccall = [c \in Callers |-> NoCall]
    /\ nCalls = [c \in Callers |-> 0]
    /\ returns = {Result(EarlierCall, Uuid(3), "")}
    /\ commits = {}
    /\ callbacks = <<>>
    /\ nextUuid = FirstFreeUuid
    /\ held = {}

InitSpecMediaBacklog == InitMediaBacklog /\ InitIdleHook

SpecMediaBacklog == InitSpecMediaBacklog /\ [][NextMedia]_vars

\* The workers are goroutines of a running process: each of their steps is
\* eventually taken when it stays possible.
FairSpecMedia ==
    /\ SpecMedia
    /\ \A w \in Workers :
          /\ WF_vars(WorkerReceive(w))
          /\ WF_vars(WorkerMark(w))
          /\ WF_vars(WorkerCommit(w))
          /\ WF_vars(WorkerFinish(w))

(* ====================== properties of the Hook ========================== *)
\* the create calls the Sink has received (an update carries an EndTime)
Creates == {c \in sinkCalls : ~c.End}
EndEvents == {TraceEventNodeEnd, TraceEventNodeError, TraceEventGraphEnd}

\* C1: when GraphStart(g), NodeStart(n, parent=g), NodeEnd(n), GraphEnd(g)
\* are delivered in this order to an enabled Hook whose Sink accepts every
\* call, then from NodeStart on the Sink has been asked to create exactly one
\* Trace, the root Observation of g and one node Observation for n; the
\* parent sent and recorded for the node Observation is that root
\* Observation; and no call names any other Trace or Observation.
C1_OneRunOneTraceOneNode ==
    run.phase >= 2 =>
        \E t \in Creates, root \in Creates, node \in Creates :
            /\ t.op = "trace" /\ t.GraphSpanID = run.g /\ t.ok
            /\ root.op = "span" /\ root.NodeName = <<>> /\ root.ok
            /\ root.GraphSpanID = run.g /\ root.TraceID = t.ID
            /\ root.Parent = NoId
            /\ node.op \in {"span", "generation"} /\ node.NodeName # <<>>
            /\ node.ok /\ node.GraphSpanID = run.n /\ node.TraceID = t.ID
            /\ node.Parent = root.ID
            /\ node.ID \in DOMAIN parents /\ parents[node.ID] = root.ID
            /\ Creates = {t, root, node}
            /\ Cardinality(Creates) = 3
            /\ {c.ID : c \in sinkCalls} = {t.ID, root.ID, node.ID}
            /\ \A c \in sinkCalls : c.ID = node.ID => c.Parent = root.ID

\* the whole run was delivered and NodeEnd(n) sent the node's update
C1_Witness ==
    /\ run.phase = 4
    /\ \E c \in sinkCalls : c.End /\ c.NodeName # <<>> /\ c.ok
    /\ \E c \in sinkCalls : c.End /\ c.op = "trace"

\* C2: a NodeEnd, NodeError or GraphEnd event whose external id no Start
\* event has carried is a no-op: the Hook makes no Sink call and leaves
\* traces, observations and parents as they were.
C2_UnmatchedEndIsNoOp ==
    [][\A sp \in TraceSpans :
          (sp.Event \in EndEvents /\ sp.ID \notin started /\ OnEvent(sp))
             => /\ emitted' = <<>>
                /\ UNCHANGED <<traces, observations, parents, sinkCalls>>]_vars

(* ====================== properties of the uploader ===================== *)
HashOfID(id) == MediaByID(id).Hash
\* the calls whose upload the workers have committed
Committed == {d.key : d \in commits}
CallKeys == Callers \X (1..MaxCalls)
QueuedKeys == {queue[i].key : i \in DOMAIN queue}
HeldKeys == {wtask[w].key : w \in {x \in Workers : wtask[x] # NoTask}}
TaskKeys == QueuedKeys \cup HeldKeys \cup Committed
InCall(key) == \E c \in Callers : ccall[c] # NoCall /\ ccall[c].key = key
UploadOK(r) == r.op = "Upload" /\ r.err = ""

\* C3: two sequential Upload calls with byte-identical content, the second
\* issued after the first one's upload has completed, return the same
\* reference id, and the second call adds no upload: the one upload performed
\* for the two calls is the first call's.
C3_SequentialUploadsSameReference ==
    [][\A r2 \in returns' \ returns : \A r1 \in returns :
          ( /\ UploadOK(r1) /\ UploadOK(r2)
            /\ HashOfID(r1.media) = HashOfID(r2.media)
            /\ r1.key \in Committed
            /\ ~InCall(r2.key) )
          => /\ r2.id = r1.id
             /\ r2.key \notin {queue'[i].key : i \in DOMAIN queue'}]_vars

\* C4: the id a successful Upload call returned is the reference id the
\* worker commits for that content: the one in the MediaStore under the
\* content hash and the one in the media's completed StatusTable entry (which
\* is what WaitForUpload returns).
C4_UploadReturnsCommittedReference ==
    \A r \in returns :
        UploadOK(r) =>
            /\ HashOfID(r.media) \in DOMAIN dedupCache
                  => r.id = dedupCache[HashOfID(r.media)]
            /\ (HasStatus(r.media) /\ uploads[r.media].Status = "completed")
                  => r.id = uploads[r.media].ReferenceID

\* C5: once a reference id is committed to the MediaStore for a content hash,
\* that entry never changes.
C5_CommittedReferenceStable ==
    [][\A h \in DOMAIN dedupCache :
          h \in DOMAIN dedupCache' /\ dedupCache'[h] = dedupCache[h]]_vars

C7_ShutdownLeavesNoPendingStatus ==
    [][\A c \in Callers :
          (cpc[c] = "wait" /\ cpc'[c] = "idle")
          => /\ queue' = <<>>
             /\ \A w \in Workers : wtask'[w] = NoTask
             /\ \A id \in DOMAIN uploads' :
                   uploads'[id].Status \notin {"queued", "uploading"}]_vars

\* C8: once Shutdown has been called nothing is added to the queue, and an
\* Upload or UploadWithCallback call made after or concurrently with it
\* completes without crashing its caller.
C8_NoEnqueueNoCrashAfterShutdown ==
    [][/\ closed => Len(queue') <= Len(queue)
       /\ \A c \in Callers :
             (cpc[c] # "panicked" /\ cpc'[c] = "panicked")
             => ccall'[c].op \notin {"Upload", "UploadWithCallback"}]_vars

\* C9: every task accepted onto the queue is eventually processed to its
\* end by a worker (its upload is committed, which sets the task's status
\* entry to "completed"); none is cancelled, dropped or left unprocessed.
C9_AcceptedTaskCompletes ==
    \A k \in CallKeys : (k \in QueuedKeys) ~> (k \in Committed)

\* C9 (witness): a task was accepted onto the queue while the channel was
\* being shut down, and has been processed.
C9_Witness ==
    /\ closed
    /\ Committed # {}
    /\ \A w \in Workers : wpc[w] = "exited"

\* C10: when the media's content hash is in the MediaStore, Upload returns the
\* cached reference id in its first step and creates no task and no
\* StatusTable entry; queue and MediaStore are unchanged.  The lookup is by
\* the hash of the bytes alone: the media's id, content type and file name
\* play no part.
C10_FastPath ==
    [][\A c \in Callers, m \in MediaPool :
          (UploadCheck(c, m) /\ Sha256(m.Data) \in DOMAIN dedupCache)
          => /\ Result(NewCall(c, "Upload", m.ID), dedupCache[Sha256(m.Data)], "")
                   \in returns'
             /\ cpc'[c] = "idle"
             /\ UNCHANGED <<queue, uploads, dedupCache, wtask, commits>>]_vars

\* C10 (witness): an Upload returned the reference id committed for another
\* media object holding the same bytes under another id, content type and
\* file name.
C10_Witness ==
    \E r \in returns, d \in commits :
        /\ UploadOK(r)
        /\ r.id = d.ref
        /\ d.media # r.media
        /\ MediaByID(d.media).ContentType # MediaByID(r.media).ContentType
        /\ MediaByID(d.media).FileName # MediaByID(r.media).FileName
        /\ ~HasStatus(r.media)

\* C11: WaitForUpload on a media id that has no StatusTable entry fails with
\* the not-found error on its first status check, in the step of the call:
\* it never enters the polling wait, and it changes nothing.
C11_WaitForUnregisteredFailsAtOnce ==
    [][\A c \in Callers, m \in MediaPool :
          (WaitForUpload(c, m) /\ ~HasStatus(m.ID))
          => /\ Result(NewCall(c, "WaitForUpload", m.ID), NoId, "upload not found")
                   \in returns'
             /\ cpc'[c] = "idle"
             /\ UNCHANGED <<queue, uploads, dedupCache>>]_vars

\* C11 (witness): a WaitForUpload got the not-found error for a media whose
\* content another call had already uploaded under another media id.
C11_Witness ==
    \E r \in returns :
        /\ r.op = "WaitForUpload" /\ r.err = "upload not found" /\ r.id = NoId
        /\ ~HasStatus(r.media)
        /\ uploads # <<>>

\* the calls whose callback has been invoked
CalledBack == {callbacks[i].key : i \in DOMAIN callbacks}
\* the UploadWithCallback tasks in the queue
QueuedCallbackKeys == {queue[i].key : i \in {j \in DOMAIN queue : queue[j].Callback}}

C13_GetStatusIsSnapshot ==
    \A h \in held : Live(h) => Pointee(h) = h.seen

\* C14: on a disabled Hook every operation (OnEvent for the six event types,
\* SetInitialInput, Flush) is a no-op: no Sink call is made and no Hook state
\* changes.
C14_DisabledHookChangesNothing ==
    [][~enabled =>
          /\ emitted' = <<>>
          /\ UNCHANGED <<enabled, autoFlush, traces, observations, parents,
                         initialInput, hookUuid, sinkCalls>>]_vars

\* C14, amended: on a disabled Hook no operation makes a Sink call or changes
\* traces, observations, parents or the configuration; the one state change
\* is SetInitialInput storing its argument.
C14_DisabledHookOnlyStoresInput ==
    [][~enabled =>
          /\ emitted' = <<>>
          /\ UNCHANGED <<enabled, autoFlush, traces, observations, parents,
                         hookUuid, sinkCalls>>
          /\ initialInput' # initialInput =>
                \E input \in Inputs :
                    SetInitialInput(input) /\ initialInput' = input]_vars

\* C14 (witness): a disabled Hook has been through start events, an input
\* and the whole delivery budget, and has made no Sink call.
C14_Witness ==
    /\ ~enabled
    /\ nEvents = MaxEvents
    /\ started # {}
    /\ initialInput \in Inputs
    /\ sinkCalls = {} /\ traces = <<>> /\ observations = <<>>


\* the Trace and root-span creates among the calls of one event
RootCreates(calls) ==
    {c \in Range(calls) : c.op # "flush" /\ ~c.End /\ c.NodeName = <<>>}

\* C15: SetInitialInput(v) stores v as the Hook's initial input, whatever was
\* stored before, and nothing else changes it; the Trace and the root
\* Observation a GraphStart creates carry as input the value stored when the
\* GraphStart is processed; and a SetInitialInput makes no Sink call, so the
\* records emitted before it are neither changed nor emitted again.
C15_InitialInputLastWriteWins ==
    [][/\ \A v \in Inputs :
             SetInitialInput(v)
                => /\ initialInput' = v
                   /\ emitted' = <<>>
                   /\ UNCHANGED <<sinkCalls, traces, observations, parents>>
       /\ initialInput' # initialInput => \E v \in Inputs : SetInitialInput(v)
       /\ \A id \in ExtIDs :
             (enabled /\ OnEvent(GraphStartSpan(id)))
                => /\ GraphStartSpan(id) \in TraceSpans
                   /\ RootCreates(emitted') # {}
                   /\ \A c \in RootCreates(emitted') : c.Input = initialInput]_vars

\* C15 (witness): a Trace and its root span were created with the input
\* written last before the GraphStart, and the input has been set to another
\* value since.
C15_Witness ==
    \E t \in Creates, root \in Creates :
        /\ t.op = "trace" /\ t.ok /\ t.Input = "in2"
        /\ root.op = "span" /\ root.ok /\ root.TraceID = t.ID /\ root.Input = "in2"
        /\ initialInput = "in1"

\* what "the value found in the merged metadata" is, when it is a string
FoundInMetadata(in, key) ==
    LET metadata == MergeMetadata(in.DefaultMetadata, in.Metadata)
    IN key \in DOMAIN metadata /\ IsString(metadata[key])
MetadataValue(in, key) == MergeMetadata(in.DefaultMetadata, in.Metadata)[key].val

\* C16: userId and sessionId of the Trace are each the configured value if
\* one is set; otherwise the value found in the merged metadata; otherwise a
\* synthesized default.
C16_IdentityPrecedence ==
    identity.done =>
        LET in == identity.in IN
        /\ identity.userID =
              IF in.UserID # "" THEN in.UserID
              ELSE IF FoundInMetadata(in, "user_id")
              THEN MetadataValue(in, "user_id")
              ELSE identity.userID
        /\ identity.sessionID =
              IF in.SessionID # "" THEN <<in.SessionID>>
              ELSE IF FoundInMetadata(in, "session_id")
              THEN <<MetadataValue(in, "session_id")>>
              ELSE GraphSession(in.traceID)


\* the event made no Sink call and left the id-translation tables alone
SilentNoOp ==
    /\ emitted' = <<>>
    /\ UNCHANGED <<traces, observations, parents, sinkCalls>>

\* C17: a duplicate start, a GraphStart or NodeStart whose external id
\* already has its mapping from an earlier start, is silently ignored: no
\* new Trace or Observation, no Sink call, tables unchanged.
C17_DuplicateStartIgnored ==
    [][/\ \A id \in ExtIDs :
             (enabled /\ id \in started /\ id \in DOMAIN traces
                 /\ OnEvent(GraphStartSpan(id)))
             => SilentNoOp
       /\ \A id \in ExtIDs, parent \in ParentIDs, name \in NodeNames :
             (enabled /\ id \in started /\ id \in DOMAIN observations
                 /\ OnEvent(NodeStartSpan(id, parent, name)))
             => SilentNoOp]_vars

\* C18: a NodeStart that declares a parent id for which no Trace is known is
\* a silent no-op, also when other Traces are open: no Observation, no Sink
\* call, observations and parents unchanged.
C18_UnknownParentIsNoOp ==
    [][\A id \in ExtIDs, parent \in ParentIDs \ {""}, name \in NodeNames :
          (enabled /\ parent \notin DOMAIN traces
              /\ OnEvent(NodeStartSpan(id, parent, name)))
          => /\ NodeStartSpan(id, parent, name) \in TraceSpans
             /\ SilentNoOp
             /\ UNCHANGED hookUuid]_vars

\* C18 (witness): a Trace is open under another id, none is known for "g1",
\* and a start event was delivered whose id got no mapping and no Sink call.
C18_Witness ==
    /\ enabled
    /\ traces # <<>> /\ "g1" \notin DOMAIN traces
    /\ emitted = <<>>
    /\ \A c \in sinkCalls : c.ok
    /\ \E id \in started :
          /\ id \notin DOMAIN observations
          /\ \A c \in sinkCalls : c.GraphSpanID # id

\* the Traces whose GraphStart has been processed and whose GraphEnd has not
OpenTraces == {traces[k].ID : k \in {x \in DOMAIN traces : traces[x].status = ""}}

\* C19: a NodeStart that declares no parent id is attached to a currently
\* open Trace, never to one that has already ended; with no Trace open it is
\* a no-op.
C19_FallbackTraceIsOpen ==
    [][\A id \in ExtIDs, name \in NodeNames :
          (enabled /\ OnEvent(NodeStartSpan(id, "", name)))
          => /\ \A i \in DOMAIN emitted' : emitted'[i].TraceID \in OpenTraces
             /\ OpenTraces = {} => SilentNoOp]_vars

\* the observations a NodeStart has created (they carry a node name)
NodeObservations ==
    {c.ID : c \in {x \in Creates : x.ok /\ x.NodeName # <<>>}}

\* C20: after a NodeStart(n) created Observation o with recorded parent p, a
\* NodeEnd or NodeError carrying the external id n emits exactly one update
\* for o with parent p, whichever way the NodeStart's Trace was resolved.
C20_NodeEndUpdatesItsObservation ==
    [][\A event \in {TraceEventNodeEnd, TraceEventNodeError}, id \in ExtIDs,
          parent \in ParentIDs, name \in NodeNames :
          ( /\ enabled
            /\ id \in DOMAIN observations
            /\ observations[id] \in NodeObservations
            /\ observations[id] \in DOMAIN parents
            /\ OnEvent(NodeEndSpan(event, id, parent, name)) )
          => /\ Len(emitted') = 1
             /\ emitted'[1].End
             /\ emitted'[1].ID = observations[id]
             /\ emitted'[1].Parent = parents[observations[id]]]_vars


\* the root Observations sent by the GraphStart that opened the Trace now
\* known under the external id
RootOf(id) ==
    {c.ID : c \in {x \in Creates : /\ x.op = "span"
                                   /\ x.GraphSpanID = id
                                   /\ x.TraceID = traces[id].ID}}

\* C21: GraphEnd for a known external id emits a Trace-update, then an
\* update of the root Observation created by the matching GraphStart, then
\* flushes the Sink if and only if AutoFlush is configured; it creates no
\* new record.
C21_GraphEndSequence ==
    [][\A id \in ExtIDs, error \in BOOLEAN :
          (enabled /\ id \in DOMAIN traces /\ OnEvent(GraphEndSpan(id, error)))
          => /\ Len(emitted') = IF autoFlush THEN 3 ELSE 2
             /\ emitted'[1].op = "trace" /\ emitted'[1].End
             /\ emitted'[1].ID = traces[id].ID
             /\ emitted'[2].op = "span" /\ emitted'[2].End
             /\ emitted'[2].ID \in RootOf(id)
             /\ autoFlush => emitted'[3] = FlushCall
             /\ UNCHANGED hookUuid]_vars

\* C22: a Sink failure never reaches the caller of OnEvent and never stops
\* processing. After any rejection every event can still be delivered; a
\* GraphEnd whose Trace update is rejected still sends the root update and
\* the auto-flush; a GraphStart whose root create is rejected still records
\* its Trace and root mapping.
C22_SinkFailureSwallowed ==
    /\ []((enabled /\ nEvents < MaxEvents /\ \E c \in sinkCalls : ~c.ok)
             => \A sp \in TraceSpans : ENABLED OnEvent(sp))
    /\ [][/\ \A id \in ExtIDs, error \in BOOLEAN :
                (enabled /\ id \in DOMAIN traces
                    /\ OnEvent(GraphEndSpan(id, error)))
                => /\ Len(emitted') = IF autoFlush THEN 3 ELSE 2
                   /\ emitted'[2].op = "span" /\ emitted'[2].End
                   /\ autoFlush => emitted'[3] = FlushCall
          /\ \A id \in ExtIDs :
                (enabled /\ OnEvent(GraphStartSpan(id)) /\ emitted'[1].ok)
                => /\ Len(emitted') = 2
                   /\ id \in DOMAIN traces'
                   /\ traces'[id].ID = emitted'[1].ID
                   /\ observations'[id] = emitted'[2].ID]_vars

\* C22 (witness): the Sink rejected the Trace update of a GraphEnd and the
\* root update and the flush were sent all the same.
C22_Witness ==
    /\ enabled /\ autoFlush
    /\ Len(emitted) = 3
    /\ emitted[1].op = "trace" /\ emitted[1].End /\ ~emitted[1].ok
    /\ emitted[2].op = "span" /\ emitted[2].End
    /\ emitted[3] = FlushCall

\* the vocabulary and the two letters it counts as one
Vocabulary ==
    {<<"a","i">>, <<"l","l","m">>, <<"g","e","n","e","r","a","t","e">>,
     <<"c","o","m","p","l","e","t","i","o","n">>, <<"c","h","a","t">>,
     <<"g","p","t">>, <<"c","l","a","u","d","e">>, <<"g","e","m","i","n","i">>,
     <<"o","p","e","n","a","i">>}
SameLetter(a, b) ==
    a = b \/ \E k \in 1..26 : {a, b} = {UpperCase[k], LowerCase[k]}
OccursIn(name, word) ==
    \E at \in 1..(Len(name) - Len(word) + 1) :
       \A j \in 1..Len(word) : SameLetter(name[at + j - 1], word[j])
GenerationNames ==
    {n \in TestedNames : n[1] \in {"g", "a", "l", "c", "o"}}

Forwarded(filter, span) ==
    /\ span.Event \notin filter.ExcludeEvents
    /\ filter.IncludeEvents = {} \/ span.Event \in filter.IncludeEvents
    /\ ~ /\ span.Event \in {TraceEventNodeEnd, TraceEventGraphEnd}
         /\ filter.MinDuration > 0
         /\ span.Duration < filter.MinDuration

\* the filter of TestFilteredHook, and what its wrapped hook is to receive
\* of a list of calls
TestFilter ==
    [IncludeEvents |-> {TraceEventNodeStart, TraceEventNodeEnd},
     ExcludeEvents |-> {}, MinDuration |-> 2]
TestExpects(span) ==
    \/ span.Event = TraceEventNodeStart
    \/ span.Event = TraceEventNodeEnd /\ span.Duration = 3

\* C24: FilteredHook forwards an event if and only if its type is not in
\* ExcludeEvents, IncludeEvents is empty or holds its type, and it is not a
\* NodeEnd / GraphEnd with Duration below a positive MinDuration; a
\* forwarded event is delivered exactly once, a filtered one never: the
\* wrapped hook has received exactly the forwarded calls, in order.
C24_FilteredHookForwards ==
    "filter" \in DOMAIN filtered =>
       LET Passes(span) == Forwarded(filtered.filter, span)
       IN /\ filtered.received = SelectSeq(filtered.calls, Passes)
          /\ filtered.filter = TestFilter
                => filtered.received = SelectSeq(filtered.calls, TestExpects)

\* C24 (witness): with a positive MinDuration and no lists, a short NodeEnd
\* was filtered and a short NodeError after it was forwarded.
C24_Witness ==
    /\ "filter" \in DOMAIN filtered
    /\ filtered.filter.MinDuration = 2
    /\ filtered.filter.IncludeEvents = {} /\ filtered.filter.ExcludeEvents = {}
    /\ filtered.calls = <<[Event |-> TraceEventNodeEnd, Duration |-> 1],
                          [Event |-> TraceEventNodeError, Duration |-> 1]>>
    /\ filtered.received = <<[Event |-> TraceEventNodeError, Duration |-> 1]>>

\* C25: MultiHook.OnEvent delivers each event exactly once to every hook
\* registered when the call was made, in registration order; a hook added
\* with AddHook receives every event delivered after it was added and none
\* delivered before.
C25_MultiHookDelivers ==
    "hooks" \in DOMAIN multi =>
       \A e \in 1..multi.event :
          LET OfEvent(r) == r.event = e
              rec == SelectSeq(multi.received, OfEvent)
              registered == {pos \in 1..Len(multi.hooks) : multi.addedAt[pos] < e}
              returned == e < multi.event \/ multi.i = 0
          IN /\ \A k \in 1..Len(rec) : /\ rec[k].pos = k
                                       /\ rec[k].hook = multi.hooks[k]
                                       /\ k \in registered
             /\ returned => Len(rec) = Cardinality(registered)

\* C25 (witness): a hook added after the first call had begun did not
\* receive the first event and received the second, after the earlier hooks.
C25_Witness ==
    /\ "hooks" \in DOMAIN multi
    /\ multi.event = 2 /\ multi.i = 0
    /\ \E pos \in 1..Len(multi.hooks) :
          /\ multi.addedAt[pos] = 1
          /\ \E k \in 1..Len(multi.received) :
                multi.received[k].pos = pos /\ multi.received[k].event = 2
          /\ \E k \in 1..Len(multi.received) :
                multi.received[k].pos < pos /\ multi.received[k].event = 1

\* how far along queued -> uploading -> {completed | failed} a status is
StatusRank(status) ==
    CASE status = "queued" -> 1
      [] status = "uploading" -> 2
      [] status \in {"completed", "failed"} -> 3

\* C26: a StatusTable entry only moves forward along queued -> uploading ->
\* {completed | failed}: never backwards, completed and failed absorbing; in
\* the step that makes it completed its reference id is set and the same id
\* is written into the MediaStore under the media's content hash.  Stated of
\* one status object (the entry a registration created), step by step.
C26_StatusOnlyMovesForward ==
    [][\A id \in DOMAIN uploads :
          /\ id \in DOMAIN uploads'
          /\ uploads'[id].StartedAt = uploads[id].StartedAt
                => /\ StatusRank(uploads'[id].Status) >= StatusRank(uploads[id].Status)
                   /\ StatusRank(uploads[id].Status) = 3 => uploads'[id] = uploads[id]
                   /\ (uploads[id].Status # "completed"
                          /\ uploads'[id].Status = "completed")
                         => /\ uploads'[id].ReferenceID # NoId
                            /\ HashOfID(id) \in DOMAIN dedupCache'
                            /\ dedupCache'[HashOfID(id)] = uploads'[id].ReferenceID]_vars

\* the status entries that read "uploading", and the workers inside
\* processUpload
Uploading == {id \in DOMAIN uploads : uploads[id].Status = "uploading"}
Processing == {w \in Workers : wtask[w] # NoTask}

\* C27: at most N uploads are in flight (status uploading, or being
\* processed by a worker) at any time, N being the number of workers the
\* uploader was constructed with (2 when the requested count is <= 0), and
\* each dequeued task is processed by exactly one worker.
C27_AtMostNInFlight ==
    /\ \A requested \in -2..0 : NewMediaUploaderWorkers(requested) = 2
    /\ \A requested \in 1..4 : NewMediaUploaderWorkers(requested) = requested
    /\ Cardinality(Workers) = 2
    /\ Cardinality(Uploading) <= Cardinality(Workers)
    /\ Cardinality(Processing) <= Cardinality(Workers)
    /\ \A id \in Uploading : \E w \in Processing : wtask[w].Media = id
    /\ \A w1 \in Processing, w2 \in Processing :
          wtask[w1].key = wtask[w2].key => w1 = w2
    /\ HeldKeys \cap QueuedKeys = {}
    /\ \A d1 \in commits, d2 \in commits : d1.key = d2.key => d1 = d2
    /\ \A d \in commits : d.key \notin QueuedKeys

\* C27 (witness): every worker is uploading, each a task of its own, as many
\* entries read "uploading", and one more task waits in the queue.
C27_Witness ==
    /\ Cardinality(Uploading) = Cardinality(Workers)
    /\ \A w \in Workers : wpc[w] = "upload"
    /\ queue # <<>>

\* what the handlers and SetInitialInput read and write
HookState ==
    <<traces, observations, parents, initialInput, hookUuid, sinkCalls>>

\* C28: event handlers and SetInitialInput of one Hook are mutually
\* exclusive: at most one is inside its body at any time, and every change
\* of the Hook's tables, input or Sink history is the whole body of the one
\* call that holds the lock, so that the calls take effect one after the
\* other in the order they took the lock.
C28_HandlersMutuallyExclusive ==
    /\ [](Cardinality(Holders) <= 1)
    /\ [][HookState' # HookState
             => \E c \in Callers :
                   /\ Holders = {c} /\ Holders' = {c}
                   /\ mu[c].at = nEvents /\ nEvents' > nEvents
                   /\ IF mu[c].op = "OnEvent" THEN OnEvent(mu[c].span)
                      ELSE SetInitialInput(mu[c].input)]_vars

\* C28 (witness): after a GraphStart took effect, a goroutine holds the lock
\* for an event whose handler has not run yet, and nobody else is inside.
C28_Witness ==
    /\ traces # <<>>
    /\ Holders = {"c2"}
    /\ mu["c2"].op = "OnEvent" /\ mu["c2"].at = nEvents

\* C29: the parent-link table is write-once per Observation: an entry once
\* recorded is never changed by a later event, in particular not after the
\* Observation was given an end time; end events only send updates.
C29_ParentsWriteOnce ==
    [][/\ \A o \in DOMAIN parents :
             o \in DOMAIN parents' /\ parents'[o] = parents[o]
       /\ \A event \in {TraceEventNodeEnd, TraceEventNodeError},
             id \in ExtIDs, parent \in ParentIDs, name \in NodeNames :
             (enabled /\ OnEvent(NodeEndSpan(event, id, parent, name)))
             => /\ UNCHANGED <<parents, observations, hookUuid>>
                /\ \A i \in DOMAIN emitted' : emitted'[i].End
       /\ \A id \in ExtIDs, error \in BOOLEAN :
             (enabled /\ OnEvent(GraphEndSpan(id, error)))
             => /\ UNCHANGED <<parents, observations, hookUuid>>
                /\ \A i \in DOMAIN emitted' :
                      emitted'[i] = FlushCall \/ emitted'[i].End]_vars

\* C29 (witness): an Observation linked to a parent has been given its end
\* time, and a later event has created another record.
C29_Witness ==
    \E c \in sinkCalls :
       /\ c.End /\ c.ok
       /\ c.ID \in DOMAIN parents /\ parents[c.ID] # NoId
       /\ \E d \in Creates : d.ID[2] > c.ID[2]

\* the entries reached from o within n parent links
RECURSIVE Ancestors(_, _)
Ancestors(o, n) ==
    IF n = 0 \/ o \notin DOMAIN parents \/ parents[o] = NoId THEN {}
    ELSE {parents[o]} \cup Ancestors(parents[o], n - 1)

\* C30: the parent-link table is a forest: from every Observation the
\* parent links reach an entry with empty parent in finitely many steps (no
\* cycle, no self-parent), and a non-empty parent id was itself present in
\* the table when the child was linked.
C30_ParentsFormForest ==
    /\ [](\A o \in DOMAIN parents :
             LET up == Ancestors(o, Cardinality(DOMAIN parents))
             IN /\ o \notin up
                /\ up \subseteq DOMAIN parents
                /\ parents[o] # NoId => \E a \in up : parents[a] = NoId)
    /\ [][\A o \in DOMAIN parents' :
             (o \notin DOMAIN parents /\ parents'[o] # NoId)
             => parents'[o] \in DOMAIN parents]_vars

\* C30 (witness): a chain of two links: an Observation whose parent has a
\* parent that is a root.
C30_Witness ==
    \E o \in DOMAIN parents :
       /\ parents[o] # NoId
       /\ parents[parents[o]] # NoId
       /\ parents[parents[parents[o]]] = NoId

\* the keys handleGraphStart sets itself
DerivedKeys == {"graph_span_id", "sdk", "sdk_version"}

\* C31: the metadata of the Trace a GraphStart emits holds exactly the keys
\* of the configured default metadata, of the event's metadata and the three
\* derived fields graph_span_id, sdk and sdk_version; a derived key carries
\* the derived value whatever the two maps hold under it, any other key of
\* the event's metadata carries the event's value also when the defaults
\* hold the key, and a key only the defaults hold carries the default.
C31_TraceMetadataMergeOrder ==
    identity.done =>
        LET in == identity.in
            metadata == identity.metadata
        IN /\ DOMAIN metadata =
                 DOMAIN in.DefaultMetadata \cup DOMAIN in.Metadata
                     \cup DerivedKeys
           /\ metadata["graph_span_id"] = StringValue(in.ID)
           /\ metadata["sdk"] = StringValue("langfuse-go/langgraph")
           /\ metadata["sdk_version"] = StringValue("1.0.0")
           /\ \A k \in DOMAIN metadata \ DerivedKeys :
                 metadata[k] = IF k \in DOMAIN in.Metadata THEN in.Metadata[k]
                               ELSE in.DefaultMetadata[k]

\* a merge was done where defaults and event both set a derived key and both
\* set another key, with different values
C31_Witness ==
    /\ identity.done
    /\ "metadata" \in DOMAIN identity
    /\ {"sdk", "env"} \subseteq DOMAIN identity.in.DefaultMetadata
    /\ {"sdk", "env"} \subseteq DOMAIN identity.in.Metadata
    /\ identity.in.Metadata["env"] # identity.in.DefaultMetadata["env"]
    /\ identity.metadata["env"] = identity.in.Metadata["env"]

\* the integer event.metadata.usage gives under a key: 0 when the key is
\* missing or its value is no int
UsageGiven(sp, key) ==
    LET usage == sp.Metadata["usage"].entries
    IN IF key \in DOMAIN usage /\ usage[key].type = "int" THEN usage[key].num
       ELSE 0
HasUsageMap(sp) ==
    "usage" \in DOMAIN sp.Metadata /\ sp.Metadata["usage"].type = "map"

\* C32: a Generation update sent on NodeEnd / NodeError carries a usage
\* whose input and output are the integers the event's metadata usage map
\* gives (0 for a missing or non-integer field) and whose total is their
\* sum; when the metadata holds no usage map it carries input 100, output
\* 200, total 300; a Span update carries no usage.
C32_UsageFromMetadata ==
    [][\A sp \in RecordEndSpans :
          OnEvent(sp) =>
             \A i \in DOMAIN emitted' :
                LET c == emitted'[i]
                IN /\ c.op = "generation" =>
                         /\ c.Usage.sent
                         /\ IF HasUsageMap(sp)
                            THEN /\ c.Usage.Input = UsageGiven(sp, "input")
                                 /\ c.Usage.Output = UsageGiven(sp, "output")
                                 /\ c.Usage.Total =
                                       UsageGiven(sp, "input")
                                          + UsageGiven(sp, "output")
                            ELSE /\ c.Usage.Input = 100
                                 /\ c.Usage.Output = 200
                                 /\ c.Usage.Total = 300
                   /\ c.op = "span" => ~c.Usage.sent]_vars

\* a Generation update went out whose usage has the input the event gave and
\* 0 for an output the event did not give as an integer
C32_Witness ==
    \E c \in sinkCalls :
       /\ c.op = "generation"
       /\ c.End
       /\ c.Usage = [sent |-> TRUE, Input |-> 7, Output |-> 0, Total |-> 7]

\* the model the claim names for a node name and metadata
ModelByPattern(name) ==
    IF OccursIn(name, <<"g","p","t">>) THEN "gpt-3.5-turbo"
    ELSE IF OccursIn(name, <<"c","l","a","u","d","e">>) THEN "claude-3-sonnet"
    ELSE IF OccursIn(name, <<"g","e","m","i","n","i">>) THEN "gemini-pro"
    ELSE "unknown"
\* the root Observations the Sink was asked to create
RootObservations ==
    {c \in sinkCalls : c.op = "span" /\ ~c.End /\ c.Parent = NoId
                          /\ c.Name = TraceName}

\* C33: a Generation that NodeStart creates is named <nodeName>_generation;
\* its model is the string the event's metadata holds under "model" when
\* there is one, otherwise gpt-3.5-turbo, claude-3-sonnet or gemini-pro for
\* a node name containing gpt, claude or gemini in any case, tried in this
\* order, otherwise "unknown"; and NodeStart(gpt_summarize) without a model
\* in its metadata creates the Generation gpt_summarize_generation with
\* model gpt-3.5-turbo whose parent is the root Observation of its Trace.
C33_GenerationNameAndModel ==
    [][\A sp \in RecordStartSpans :
          OnEvent(sp) /\ emitted' # <<>> =>
             LET c == emitted'[1]
                 hasModel == "model" \in DOMAIN sp.Metadata
                                /\ sp.Metadata["model"].type = "string"
             IN /\ c.op = "generation" =>
                      /\ c.Name = sp.NodeName \o GenerationSuffix
                      /\ c.Model = IF hasModel THEN sp.Metadata["model"].val
                                   ELSE ModelByPattern(sp.NodeName)
                /\ sp.NodeName = GptSummarize /\ ~hasModel =>
                      /\ emitted' = <<c>>
                      /\ c.op = "generation" /\ ~c.End
                      /\ c.Name = <<"g","p","t","_","s","u","m","m","a","r","i","z","e",
                                    "_","g","e","n","e","r","a","t","i","o","n">>
                      /\ c.Model = "gpt-3.5-turbo"
                      /\ \E root \in RootObservations :
                            /\ root.TraceID = c.TraceID
                            /\ c.Parent = root.ID]_vars

\* NodeStart(gpt_summarize) has created its Generation under the root
\* Observation, with the model the name stands for
C33_Witness ==
    \E c \in sinkCalls, root \in RootObservations :
       /\ c.op = "generation" /\ ~c.End /\ c.ok
       /\ c.NodeName = GptSummarize
       /\ c.Model = "gpt-3.5-turbo"
       /\ c.Parent = root.ID

\* the node Observations the Sink was asked to create, and the updates
\* NodeEnd / NodeError sent (both carry the event's node name)
NodeCreates == {c \in sinkCalls : ~c.End /\ c.NodeName # <<>>}
NodeUpdates == {c \in sinkCalls : c.End /\ c.NodeName # <<>>}

\* C34: every node Observation is created with a parent that is the root
\* Observation a GraphStart created for the Trace the node is attached to,
\* also when several runs share the Hook and their events interleave.
C34_ParentInSameTrace ==
    \A c \in NodeCreates :
       \E root \in RootObservations :
          /\ c.Parent = root.ID
          /\ c.TraceID = root.TraceID

\* C35: the update a NodeEnd or NodeError sends for a record has the kind
\* (Span or Generation) and the name the record was created with at
\* NodeStart, whatever node name the end event carries.
C35_EndKeepsKindAndName ==
    \A c \in NodeCreates, u \in NodeUpdates :
       c.ID = u.ID => c.op = u.op /\ c.Name = u.Name

\* C36: the default-parent entry, once there, holds the id of a root
\* Observation created by a GraphStart, an Observation recorded with an
\* empty parent, whatever external ids the events carry.
C36_DefaultParentIsRoot ==
    "default_parent" \in DOMAIN observations =>
       /\ \E root \in RootObservations :
             observations["default_parent"] = root.ID
       /\ observations["default_parent"] \in DOMAIN parents
       /\ parents[observations["default_parent"]] = NoId

\* the creates of a Trace or of a node Observation, which name the event's
\* external id as graph_span_id
StartCreates == {c \in Creates : c.op = "trace" \/ c.NodeName # <<>>}
\* the external ids whose only creates so far the Sink has rejected
NeverCreated ==
    {c.GraphSpanID : c \in {x \in StartCreates : ~x.ok}}
        \ {c.GraphSpanID : c \in {x \in StartCreates : x.ok}}
\* the record ids the tables hold
MappedIDs ==
    {traces[k].ID : k \in DOMAIN traces}
        \cup {observations[k] : k \in DOMAIN observations}
        \cup DOMAIN parents

\* C37: when the Sink rejects the create of a Trace at GraphStart or of a
\* node Span / Generation at NodeStart, the handler emits nothing more and
\* records no mapping; the rejected record's id is in no table and no
\* update is ever sent for it; and while the external id has had no accepted
\* create, a GraphEnd, NodeEnd or NodeError carrying it and a NodeStart
\* naming it as parent are no-ops.
C37_RejectedCreateLeavesNoMapping ==
    /\ [](\A c \in StartCreates :
             ~c.ok => /\ c.ID \notin MappedIDs
                      /\ \A u \in sinkCalls : u.End => u.ID # c.ID)
    /\ [][/\ (emitted' # <<>> /\ emitted'[1].op # "flush"
                /\ ~emitted'[1].End /\ ~emitted'[1].ok
                /\ (emitted'[1].op = "trace" \/ emitted'[1].NodeName # <<>>))
             => /\ Len(emitted') = 1
                /\ UNCHANGED <<traces, observations, parents>>
          /\ \A id \in NeverCreated :
                /\ \A error \in BOOLEAN :
                      OnEvent(GraphEndSpan(id, error)) => SilentNoOp
                /\ \A parent \in ParentIDs, name \in NodeNames :
                      /\ OnEvent(NodeEndSpan(TraceEventNodeEnd, id, parent, name))
                            => SilentNoOp
                      /\ OnEvent(NodeEndSpan(TraceEventNodeError, id, parent, name))
                            => SilentNoOp
                /\ \A other \in ExtIDs, name \in NodeNames :
                      (id # "" /\ id \in ParentIDs
                          /\ OnEvent(NodeStartSpan(other, id, name)))
                      => SilentNoOp]_vars

(* ==================== properties of the uploader, II ===================== *)
\* a task for the media is in the queue, or a worker has taken it and is
\* about to mark it, or the Upload that registered the entry has not reached
\* its send yet
TaskPending(id) ==
    \/ \E i \in DOMAIN queue : queue[i].Media = id
    \/ \E w \in Workers : wpc[w] = "mark" /\ wtask[w].Media = id
    \/ \E c \in Callers : cpc[c] = "select" /\ ccall[c].media = id

\* C38: while the uploader has not been shut down, every StatusTable entry
\* in state "queued" has its task in the queue or on its way to a worker;
\* in particular, once Upload has returned the saturation error for a
\* media, no entry of that media stays "queued" with no task that would
\* advance it.
C38_QueuedEntryHasTask ==
    ~closed =>
       \A id \in DOMAIN uploads :
          uploads[id].Status = "queued" => TaskPending(id)

\* C39: a media handed to UploadWithCallback is tracked like one handed to
\* Upload: once the call has returned the StatusTable has an entry for the
\* media, so that GetStatus is not nil, and when its callback has been
\* invoked with a reference id the entry is there for WaitForUpload to
\* return that reference.
C39_CallbackUploadTracked ==
    /\ \A r \in returns : r.op = "UploadWithCallback" => HasStatus(r.media)
    /\ \A i \in DOMAIN callbacks :
          \A d \in commits :
             d.key = callbacks[i].key =>
                /\ HasStatus(d.media)
                /\ uploads[d.media].Status = "completed"

\* C40: with concurrent OnEvent, SetInitialInput and Flush calls on an
\* enabled Hook whose Sink answers every call, every call returns: a
\* goroutine that has called gets the lock, runs its handler and releases
\* the lock on its return, early returns included; and when no call is in
\* progress the lock is free.
C40_NoDeadlock ==
    /\ \A c \in Callers : (mu[c] # NoCall) ~> (mu[c] = NoCall)
    /\ []((\A c \in Callers : mu[c] = NoCall) => MuFree)
    /\ [](Cardinality(Holders) <= 1)

\* a goroutine is blocked in Lock while another holds the lock for a handler
\* that returned early, and a Flush has gone through meanwhile
C40_Witness ==
    /\ \E c \in Callers : mu[c] # NoCall /\ mu[c].at = Waiting
    /\ \E c \in Holders : mu[c].at < nEvents
    /\ traces = <<>>
    /\ emitted = <<FlushCall>>

====
